---- MODULE Spec2Model ----
(***************************************************************************)
(* SuperMCP: a registry-driven proxy in front of MCP tool servers.         *)
(* The model follows src/SuperMCP.py: the registry scan of mcp.json, the   *)
(* one-shot inspect / call sessions over stdio and SSE, and the result     *)
(* extraction.  One caller request is in flight at a time; every `await`   *)
(* of a handler is a step of its own.                                      *)
(***************************************************************************)
EXTENDS FiniteSets, Integers, Sequences, TLC

VARIABLES
    REGISTRY,       \* name -> descriptor (module global REGISTRY)
    mcpJson,        \* the file at MCP_CONFIG_PATH
    fs,             \* entry-point paths that exist on disk
    gitDirs,        \* names whose .mcps/remote/<name> directory exists
    SSE_AVAILABLE,  \* whether mcp.client.sse could be imported
    pc,             \* position of the request in flight
    call,           \* the request in flight (or the last one)
    live,           \* child processes and stream connections that are open
    session,        \* the ClientSession of the request in flight
    result,         \* what the last finished operation returned or raised
    scanLog,        \* history: the registry built by the last complete rebuild
    edits,          \* number of outside edits of mcp.json so far
    invokeLog,      \* history: the last finished invoke that listed tools
    tmpJson,        \* the sibling temp file mcp.json.tmp
    adminLog,       \* history: the add / remove / update calls so far
    provider        \* the ProviderClient: its cache, the cache file, the clock

vars == <<REGISTRY, mcpJson, fs, gitDirs, SSE_AVAILABLE, pc, call, live,
          session, result, scanLog, edits, invokeLog, tmpJson, adminLog,
          provider>>

(***************************************************************************)
(* Bounds and the small sets the inputs are drawn from.                    *)
(***************************************************************************)
MaxEdits == 1       \* times mcp.json is edited from outside
MaxBlocks == 2      \* content blocks of one tool result
MaxAdmin == 1       \* add / remove / update calls of one behaviour

Names == {"a", "b"}
ToolNames == {"ping", "echo"}

None == "<None>"
NL == "\n"

EmptyMap == <<>>

Put(f, k, v) == [x \in (DOMAIN f) \cup {k} |-> IF x = k THEN v ELSE f[x]]

Has(d, k) == k \in DOMAIN d

\* Python's d.get(k, default)
Get(d, k, default) == IF k \in DOMAIN d THEN d[k] ELSE default

\* the object with the keys `ks` of f only
Restrict(f, ks) == [k \in ks |-> f[k]]

\* Python truthiness of a string (or None) and of a list or dict (or None)
TruthyStr(v) == v # None /\ v # ""

TruthyList(v) == v # None /\ v # <<>>

(***************************************************************************)
(* Entries of the persisted document.  An entry is a JSON object, given as *)
(* a function from the keys that are present; NotAnObject stands for an    *)
(* entry whose JSON value is not an object; an `env` object is given as    *)
(* the sequence of its <<key, value>> pairs, a key being a sequence of     *)
(* characters.                                                             *)
(***************************************************************************)
NotAnObject == [json_string |-> "oops"]

IsObject(v) == ~ Has(v, "json_string")

StdioEntry == [command |-> "python", args |-> <<"srv.py">>]
StdioGone == [command |-> "python", args |-> <<"gone.py">>]
StdioDisabled == [command |-> "python", args |-> <<"srv.py">>, enabled |-> FALSE]
StdioGit == [command |-> "python", args |-> <<"srv.py">>, url |-> "https://git/x"]
StdioNoArgs == [command |-> "python"]
SseEntry == [url |-> "http://h/sse"]
SseWithEnv == [url |-> "http://h/sse", env |-> << << <<"k", "_", "a">>, "s3cret" >> >>]
UnknownType == [type |-> "ws", url |-> "ws://h"]

Doc(cfgA, cfgB) ==
    [state |-> "ok",
     servers |-> << [name |-> "a", cfg |-> cfgA], [name |-> "b", cfg |-> cfgB] >>]

\* the contents mcp.json is given in the model
Documents ==
    { [state |-> "missing", servers |-> <<>>],
      [state |-> "malformed", servers |-> <<>>],
      [state |-> "nokey", servers |-> <<>>],
      Doc(StdioEntry, SseEntry),
      Doc(StdioEntry, NotAnObject),
      Doc(SseWithEnv, StdioGone),
      Doc(StdioGit, StdioEntry),
      Doc(StdioDisabled, UnknownType),
      Doc(StdioNoArgs, SseEntry) }

(***************************************************************************)
(* _detect_server_type                                                     *)
(***************************************************************************)
\* mutant: a non-empty url alone decides for sse
DetectUrlWins(server_config) ==
    LET has_url == Has(server_config, "url") /\ TruthyStr(server_config["url"])
        has_command == Has(server_config, "command") /\ TruthyStr(server_config["command"])
        has_args == Has(server_config, "args") /\ TruthyList(server_config["args"])
    IN  IF Has(server_config, "type") THEN server_config["type"]
        ELSE IF has_command /\ has_args THEN "stdio"
        ELSE IF has_url THEN "sse"
        ELSE "stdio"

_detect_server_type(server_config) ==
    LET has_url == Has(server_config, "url") /\ TruthyStr(server_config["url"])
        has_command == Has(server_config, "command") /\ TruthyStr(server_config["command"])
        has_args == Has(server_config, "args") /\ TruthyList(server_config["args"])
    IN  IF Has(server_config, "type") THEN server_config["type"]
        ELSE IF has_command /\ has_args THEN "stdio"
        ELSE IF has_url /\ ~ (has_command \/ has_args) THEN "sse"
        ELSE "stdio"

(***************************************************************************)
(* _load_mcp_config: the parsed document and the file it leaves behind (a  *)
(* missing file is created empty).                                         *)
(***************************************************************************)
EmptyConfig == [state |-> "ok", servers |-> <<>>]

\* mutant: a document that cannot be used is handed on as it is, and the
\* scan fails on it
LoadKeepsBrokenDocument(file) ==
    IF file.state = "missing" THEN [config |-> EmptyConfig, file |-> EmptyConfig]
    ELSE IF file.state = "ok" THEN [config |-> file, file |-> file]
    ELSE [config |-> [state |-> "ok",
                      servers |-> << [name |-> "a", cfg |-> NotAnObject] >>],
          file |-> file]

_load_mcp_config(file) ==
    IF file.state = "missing" THEN [config |-> EmptyConfig, file |-> EmptyConfig]
    ELSE IF file.state = "ok" THEN [config |-> file, file |-> file]
    ELSE IF file.state = "nokey"
    THEN [config |-> [file EXCEPT !.state = "ok"], file |-> file]
    ELSE [config |-> EmptyConfig, file |-> file]

\* url.startswith(("http://", "https://")), over the URLs of the model
HttpUrls == {"http://h/sse", "https://h/sse", "https://git/x"}

HasHttpScheme(url) == url \in HttpUrls

\* _resolve_path followed by Path.exists()
EntryExists(path_str, fsys) == path_str \in fsys

(***************************************************************************)
(* _scan_available.  REGISTRY is cleared in place and refilled entry by    *)
(* entry in document order; an exception inside the loop leaves the scan   *)
(* where it stood.  provision[name] is the outcome of clone_git_repo and   *)
(* install_dependencies for a Git-based entry whose target directory is    *)
(* not there yet: clone_git_repo raises when the clone fails or times out, *)
(* install_dependencies returns a result that says whether it worked.      *)
(***************************************************************************)
\* what clone_git_repo followed by install_dependencies can come to
Provisioning == {"ok", "clone failed", "install failed"}

\* mutant: the launch fields of the entry are carried into a stream descriptor
SseDescriptorKeepsCommand(server_config) ==
    [type |-> "sse", url |-> server_config["url"],
     command |-> Get(server_config, "command", None),
     args |-> Get(server_config, "args", None), path |-> None,
     description |-> Get(server_config, "description", None),
     enabled |-> TRUE, env |-> Get(server_config, "env", None)]

SseDescriptor(server_config) ==
    [type |-> "sse", url |-> server_config["url"], command |-> None,
     args |-> None, path |-> None,
     description |-> Get(server_config, "description", None),
     enabled |-> TRUE, env |-> Get(server_config, "env", None)]

StdioDescriptor(server_config) ==
    [type |-> "stdio", command |-> server_config["command"],
     args |-> server_config["args"], url |-> Get(server_config, "url", None),
     path |-> server_config["args"][1],
     description |-> Get(server_config, "description", None),
     enabled |-> TRUE]

\* mutant: a disabled entry is counted with the errors
SkipCountsError(acc) == [acc EXCEPT !.errors = @ + 1]

Skip(acc) == [acc EXCEPT !.skipped = @ + 1]
Reject(acc) == [acc EXCEPT !.errors = @ + 1]
Register(acc, name, desc) ==
    [acc EXCEPT !.registry = Put(@, name, desc), !.found = @ + 1]

\* the logger line an entry leaves behind: "Skipping disabled server",
\* "missing required 'url' field", "Registered stdio server", ...
Logged(acc, name, line) ==
    [acc EXCEPT !.log = Append(@, [name |-> name, line |-> line])]

ScanEntry(acc, name, server_config, fsys, provision) ==
    IF ~ IsObject(server_config) THEN [acc EXCEPT !.raised = TRUE]
    ELSE IF ~ Get(server_config, "enabled", TRUE)
    THEN Skip(Logged(acc, name, "disabled"))
    ELSE LET server_type == _detect_server_type(server_config) IN
      IF server_type = "sse" THEN
        IF ~ Has(server_config, "url") \/ ~ TruthyStr(server_config["url"])
        THEN Reject(Logged(acc, name, "missing url"))
        ELSE Register(Logged(acc, name, "registered sse"), name,
                      SseDescriptor(server_config))
      ELSE IF server_type = "stdio" THEN
        IF ~ Has(server_config, "command") \/ ~ TruthyStr(server_config["command"])
        THEN Reject(Logged(acc, name, "missing command"))
        ELSE IF ~ Has(server_config, "args") \/ ~ TruthyList(server_config["args"])
        THEN Reject(Logged(acc, name, "missing args"))
        ELSE
          LET git == Has(server_config, "url") /\ TruthyStr(server_config["url"])
              needClone == git /\ name \notin acc.gitDirs
              cloned == IF needClone
                        THEN Logged([acc EXCEPT !.gitDirs = @ \cup {name}], name,
                                    IF provision[name] = "ok" THEN "cloned"
                                    ELSE "install failed")
                        ELSE acc
              entry_point == server_config["args"][1]
          IN  IF needClone /\ provision[name] = "clone failed"
              THEN Reject(Logged(acc, name, "clone failed"))
              ELSE IF ~ TruthyStr(entry_point)
              THEN Reject(Logged(cloned, name, "no entry point"))
              ELSE IF ~ EntryExists(entry_point, fsys)
              THEN Reject(Logged(cloned, name, "entry point not found"))
              ELSE Register(Logged(cloned, name, "registered stdio"), name,
                            StdioDescriptor(server_config))
      ELSE Reject(Logged(acc, name, "unknown type"))

RECURSIVE ScanLoop(_, _, _, _, _)
ScanLoop(acc, servers, i, fsys, provision) ==
    IF i > Len(servers) \/ acc.raised THEN acc
    ELSE ScanLoop(ScanEntry(acc, servers[i].name, servers[i].cfg, fsys, provision),
                  servers, i + 1, fsys, provision)

\* `summary` is the "Scan complete - Summary" block at the end of the
\* function: it is logged when the loop has run to its end
_scan_available(file, fsys, dirs, provision) ==
    LET loaded == _load_mcp_config(file)
        servers == loaded.config.servers
        start == [registry |-> EmptyMap, gitDirs |-> dirs, raised |-> FALSE,
                  found |-> 0, skipped |-> 0, errors |-> 0, log |-> <<>>]
        done == IF servers = <<>> THEN start
                ELSE ScanLoop(start, servers, 1, fsys, provision)
    IN  [registry |-> done.registry, gitDirs |-> done.gitDirs,
         file |-> loaded.file, raised |-> done.raised, found |-> done.found,
         skipped |-> done.skipped, errors |-> done.errors, log |-> done.log,
         summary |-> servers # <<>> /\ ~ done.raised]

(***************************************************************************)
(* _create_sse_headers and _mask_env_values.  Header names are sequences   *)
(* of characters.                                                          *)
(***************************************************************************)
UpperChar(c) ==
    CASE c = "a" -> "A" [] c = "k" -> "K" [] c = "x" -> "X" [] OTHER -> c

Upper(str) == [i \in DOMAIN str |-> UpperChar(str[i])]

Replace(str, old, new) == [i \in DOMAIN str |-> IF str[i] = old THEN new ELSE str[i]]

HeaderPrefix == <<"X", "-", "M", "C", "P", "-">>

\* the loop `for key, value in env.items(): headers[header_name] = value`:
\* headers is a dict, a header name assigned twice keeps the later value
RECURSIVE HeaderLoop(_, _, _)
HeaderLoop(headers, env, i) ==
    IF i > Len(env) THEN headers
    ELSE HeaderLoop(Put(headers,
                        HeaderPrefix \o Replace(Upper(env[i][1]), "_", "-"),
                        env[i][2]),
                    env, i + 1)

\* mutant: underscores are kept in the header name
CreateHeadersKeepsUnderscore(env) ==
    IF ~ TruthyList(env) THEN EmptyMap
    ELSE [h \in { HeaderPrefix \o Upper(env[i][1]) : i \in DOMAIN env } |->
            LET last == CHOOSE i \in DOMAIN env :
                          /\ HeaderPrefix \o Upper(env[i][1]) = h
                          /\ \A j \in DOMAIN env :
                                HeaderPrefix \o Upper(env[j][1]) = h => j <= i
            IN  env[last][2]]

_create_sse_headers(env) ==
    IF ~ TruthyList(env) THEN EmptyMap
    ELSE HeaderLoop(EmptyMap, env, 1)

\* the headers connect_sse_server of server_manager.py builds for its probe:
\* `headers = {}` and, `if env:`, its own copy of the loop
RECURSIVE ProbeHeaderLoop(_, _)
ProbeHeaderLoop(headers, items) ==
    IF items = <<>> THEN headers
    ELSE LET key == Head(items)[1]
             value == Head(items)[2]
             header_name == <<"X", "-", "M", "C", "P", "-">>
                              \o Replace(Upper(key), "_", "-")
         IN  ProbeHeaderLoop(Put(headers, header_name, value), Tail(items))

connect_sse_server_headers(env) ==
    IF TruthyList(env) THEN ProbeHeaderLoop(EmptyMap, env) ELSE EmptyMap

_mask_env_values(env) ==
    IF ~ TruthyList(env) THEN None
    ELSE [i \in DOMAIN env |-> <<env[i][1], "***">>]

(***************************************************************************)
(* _extract_result_content.  A raw tool result has a structuredContent     *)
(* (None when absent) and, unless the attribute is missing, a list of      *)
(* content blocks; a block has a `text` attribute or not.  Texts are       *)
(* sequences of characters.                                                *)
(***************************************************************************)
Texts == {<<>>, <<"a">>, <<"b">>}

Blocks == { [text |-> t] : t \in Texts } \cup { [data |-> "img"] }

BlockSeqs(n) == UNION { [1..k -> Blocks] : k \in 0..n }

RawResults ==
    { [structuredContent |-> sc, content |-> c] :
        sc \in {None, "{x:1}"}, c \in BlockSeqs(MaxBlocks) }
    \cup { [structuredContent |-> sc] : sc \in {None, "{x:1}"} }

\* getattr(block, "text", None)
BlockText(block) == IF Has(block, "text") THEN block["text"] ELSE None

\* the loop of lines 601-607: keep the truthy texts, in block order
RECURSIVE CollectTexts(_, _, _)
CollectTexts(content_blocks, i, texts) ==
    IF i > Len(content_blocks) THEN texts
    ELSE CollectTexts(content_blocks, i + 1,
                      IF TruthyList(BlockText(content_blocks[i]))
                      THEN Append(texts, BlockText(content_blocks[i]))
                      ELSE texts)

\* sep.join(texts)
RECURSIVE Join(_, _)
Join(sep, texts) ==
    IF texts = <<>> THEN <<>>
    ELSE IF Len(texts) = 1 THEN texts[1]
    ELSE texts[1] \o <<sep>> \o Join(sep, Tail(texts))

NoContentObject == [result |-> "ok", note |-> "No structured/text content returned."]

\* mutant: every block that has a text is kept, empty or not
ExtractKeepingEmptyTexts(raw) ==
    IF raw.structuredContent # None
    THEN [kind |-> "structured", structured |-> raw.structuredContent]
    ELSE LET content_blocks == Get(raw, "content", <<>>)
             withText == SelectSeq(content_blocks, LAMBDA b : Has(b, "text"))
             texts == [i \in DOMAIN withText |-> withText[i]["text"]]
         IN  IF texts # <<>>
             THEN [kind |-> "text", text |-> Join(NL, texts)]
             ELSE [kind |-> "object", object |-> NoContentObject]

_extract_result_content(raw) ==
    IF raw.structuredContent # None
    THEN [kind |-> "structured", structured |-> raw.structuredContent]
    ELSE LET content_blocks == Get(raw, "content", <<>>)
             texts == CollectTexts(content_blocks, 1, <<>>)
         IN  IF texts # <<>>
             THEN [kind |-> "text", text |-> Join(NL, texts)]
             ELSE [kind |-> "object", object |-> NoContentObject]

(***************************************************************************)
(* The request in flight, its transport and its session.                  *)
(***************************************************************************)
NoCall == [op |-> "none", name |-> "", tool |-> "", kind |-> "none"]

NoSession == [open |-> FALSE, spawned |-> FALSE, nextId |-> 0, sent |-> <<>>,
              answered |-> 0, initialized |-> FALSE, listed |-> FALSE,
              names |-> {}, prompts |-> {}]

NoResult == [kind |-> "none"]

Raised(what) == [kind |-> "raised", exception |-> what]

NotFound(name) == [kind |-> "error", error |-> "NotFound", name |-> name]

ToolNotFound(tool_name, names) ==
    [kind |-> "error", error |-> "ToolNotFound", tool |-> tool_name,
     available |-> names]

Methods == {"initialize", "tools/list", "prompts/list", "resources/list", "tools/call"}

PromptSets == {{}, {"greet"}}
ResourceSets == {{}, {"file:///r"}}

TransportOf(cfg) == IF cfg.type = "sse" THEN "stream" ELSE "process"

\* ClientSession(read, write): a new session numbers its requests from 0
NewSession(spawned) == [NoSession EXCEPT !.open = TRUE, !.spawned = spawned]

\* one request written to the session; its response is awaited
SendRequest(s, method) ==
    [s EXCEPT !.sent = Append(@, [id |-> s.nextId, method |-> method]),
              !.nextId = @ + 1]

Pending(s) == Len(s.sent) > s.answered

Answer(s) == [s EXCEPT !.answered = @ + 1]

\* mutant: the transport is kept open after the call
CloseTransportKeepsOpen(l, c, how) == l

\* mutant: the transport is shut down on return only
CloseTransportLeaksOnRaise(l, c, how) ==
    IF how = "raise" THEN l ELSE { r \in l : r.server # c.name }

\* leaving the `async with` blocks of a call, by return or by exception:
\* the child process / connection opened for the call is shut down
CloseTransport(l, c, how) == { r \in l : r.server # c.name }

LogInvoke(s, ok) ==
    IF call.op = "invoke" /\ s.open
    THEN [valid |-> TRUE, server |-> call.name, kind |-> call.kind,
          listed |-> s.listed, names |-> s.names,
          lastId |-> s.nextId - 1, ok |-> ok]
    ELSE invokeLog

\* the call returns `r`, its session having come to `s`
Return(r, s) ==
    /\ result' = r
    /\ live' = CloseTransport(live, call, "return")
    /\ invokeLog' = LogInvoke(s, TRUE)
    /\ session' = [s EXCEPT !.open = FALSE]
    /\ pc' = "done"

\* the call raises (the `except ...: raise` of _inspect_once / _call_tool_once)
Raise(what) ==
    /\ result' = Raised(what)
    /\ live' = CloseTransport(live, call, "raise")
    /\ invokeLog' = LogInvoke(session, FALSE)
    /\ session' = [session EXCEPT !.open = FALSE]
    /\ pc' = "done"

(***************************************************************************)
(* ProviderClient of provider_client.py: the cache of fetched catalogues.  *)
(* A cache is a function from cache keys to entries; time.time() is read   *)
(* in whole seconds.                                                       *)
(***************************************************************************)
CACHE_TTL == 3600

\* ":".join([provider_id, operation])
_get_cache_key(provider_id, operation) == <<provider_id, operation>>

\* mutant: an entry is served whatever its expires_at
GetFromCacheNeverExpires(cache, cache_key, current_time) ==
    IF cache_key \notin DOMAIN cache
    THEN [hit |-> FALSE, data |-> <<>>, cache |-> cache]
    ELSE [hit |-> TRUE, data |-> cache[cache_key].data, cache |-> cache]

\* _get_from_cache: `hit` is FALSE where the function returns None; `cache`
\* is self.cache as the lookup leaves it
_get_from_cache(cache, cache_key, current_time) ==
    IF cache_key \notin DOMAIN cache
    THEN [hit |-> FALSE, data |-> <<>>, cache |-> cache]
    ELSE IF cache[cache_key].expires_at < current_time
    THEN [hit |-> FALSE, data |-> <<>>,
          cache |-> Restrict(cache, DOMAIN cache \ {cache_key})]
    ELSE [hit |-> TRUE, data |-> cache[cache_key].data, cache |-> cache]

\* _set_cache with the default ttl, before its _save_cache
_set_cache(cache, cache_key, data, current_time) ==
    Put(cache, cache_key, [data |-> data, expires_at |-> current_time + CACHE_TTL])

\* _load_cache: the entries of the cache file that have not expired
_load_cache(file, current_time) ==
    Restrict(file, { k \in DOMAIN file : ~ (file[k].expires_at < current_time) })

\* a client that has fetched nothing, no cache file, the clock at its start
NoProvider == [cache |-> EmptyMap, file |-> EmptyMap, now |-> 0, ticks |-> 0,
               stored |-> EmptyMap]

\* mcp.json.tmp does not exist
NoTmp == [state |-> "absent", servers |-> <<>>]

\* no add_server call has returned success since the document was last
\* changed or another add / remove / update call was made
NoAdd == [valid |-> FALSE, name |-> "", server_type |-> "", url |-> None,
          command |-> None, args |-> <<>>, description |-> None]

NoAdmin == [ops |-> 0, added |-> NoAdd, reloaded |-> FALSE, did |-> {}]

\* no "Scan complete" block was logged
NoSummary == [logged |-> FALSE, found |-> 0, skipped |-> 0, errors |-> 0]

NoScan == [raised |-> FALSE, committed |-> EmptyMap, scanned |-> <<>>,
           log |-> <<>>, summary |-> NoSummary]

Init ==
    /\ REGISTRY = EmptyMap
    /\ mcpJson \in Documents
    /\ fs = {"srv.py"}
    /\ gitDirs = {}
    /\ SSE_AVAILABLE \in BOOLEAN
    /\ pc = "boot"
    /\ call = NoCall
    /\ live = {}
    /\ session = NoSession
    /\ result = NoResult
    /\ edits = 0
    /\ scanLog = NoScan
    /\ invokeLog = [valid |-> FALSE, server |-> "", kind |-> "none",
                    listed |-> FALSE, names |-> {}, lastId |-> 0, ok |-> FALSE]
    /\ tmpJson = NoTmp
    /\ adminLog = NoAdmin
    /\ provider = NoProvider

\* one run of _scan_available on the current file and disk
Rescan(s) ==
    /\ REGISTRY' = s.registry
    /\ mcpJson' = s.file
    /\ gitDirs' = s.gitDirs
    /\ scanLog' = [raised |-> s.raised,
                   committed |-> IF s.raised THEN scanLog.committed
                                 ELSE s.registry,
                   scanned |-> _load_mcp_config(mcpJson).config.servers,
                   log |-> s.log,
                   summary |-> IF s.summary
                               THEN [logged |-> TRUE, found |-> s.found,
                                     skipped |-> s.skipped, errors |-> s.errors]
                               ELSE NoSummary]

\* mcp.json is rewritten from outside the program (an editor, a deployment)
EditMcpJson ==
    /\ pc = "idle"
    /\ edits < MaxEdits
    /\ edits' = edits + 1
    /\ \E d \in Documents : d # mcpJson /\ mcpJson' = d
    /\ adminLog' = [adminLog EXCEPT !.added = NoAdd, !.reloaded = FALSE]
    /\ UNCHANGED <<REGISTRY, fs, gitDirs, SSE_AVAILABLE, pc, call, live, session,
                   result, scanLog, invokeLog, tmpJson, provider>>

\* __main__: scan once, then serve
Main ==
    /\ pc = "boot"
    /\ \E provision \in [Names -> Provisioning] :
         LET s == _scan_available(mcpJson, fs, gitDirs, provision) IN
           /\ Rescan(s)
           /\ pc' = IF s.raised THEN "exited" ELSE "idle"
           /\ result' = IF s.raised THEN Raised("scan") ELSE NoResult
    /\ UNCHANGED <<fs, SSE_AVAILABLE, call, live, session, edits, invokeLog,
                   tmpJson, adminLog, provider>>

reload_servers ==
    /\ pc = "idle"
    /\ \E provision \in [Names -> Provisioning] :
         LET s == _scan_available(mcpJson, fs, gitDirs, provision) IN
           /\ Rescan(s)
           /\ result' = IF s.raised THEN Raised("scan")
                        ELSE [kind |-> "ok", count |-> Cardinality(DOMAIN s.registry)]
    /\ call' = [op |-> "reload", name |-> "", tool |-> "", kind |-> "none",
                had |-> DOMAIN REGISTRY]
    /\ session' = NoSession
    /\ pc' = "done"
    /\ adminLog' = [adminLog EXCEPT !.reloaded = adminLog.added.valid]
    /\ UNCHANGED <<fs, SSE_AVAILABLE, live, edits, invokeLog,
                   tmpJson, provider>>

\* mutant: the summary of an SSE server carries its env as it is
ServerInfoWithEnv(name, cfg) ==
    IF cfg.type = "sse"
    THEN [name |-> name, type |-> cfg.type, description |-> cfg.description,
          enabled |-> cfg.enabled, url |-> cfg.url, env |-> cfg.env]
    ELSE [name |-> name, type |-> cfg.type, description |-> cfg.description,
          enabled |-> cfg.enabled, command |-> cfg.command, args |-> cfg.args,
          path |-> cfg.path]

ServerInfo(name, cfg) ==
    IF cfg.type = "sse"
    THEN [name |-> name, type |-> cfg.type, description |-> cfg.description,
          enabled |-> cfg.enabled, url |-> cfg.url]
    ELSE [name |-> name, type |-> cfg.type, description |-> cfg.description,
          enabled |-> cfg.enabled, command |-> cfg.command, args |-> cfg.args,
          path |-> cfg.path]

list_servers ==
    /\ pc = "idle"
    /\ result' = [kind |-> "list",
                  servers |-> { ServerInfo(n, REGISTRY[n]) : n \in DOMAIN REGISTRY }]
    /\ call' = [NoCall EXCEPT !.op = "list"]
    /\ session' = NoSession
    /\ pc' = "done"
    /\ UNCHANGED <<REGISTRY, mcpJson, fs, gitDirs, SSE_AVAILABLE, live,
                   scanLog, edits, invokeLog, tmpJson, adminLog, provider>>

(***************************************************************************)
(* add_server, remove_server, update_server and _save_mcp_config.  The     *)
(* handlers are synchronous; the save is split at its three file-system    *)
(* calls (open the temp file, dump and close it, replace the original) so  *)
(* that the files between them can be looked at.                           *)
(***************************************************************************)
HasServer(servers, name) == \E i \in DOMAIN servers : servers[i].name = name

ServerCfg(servers, name) ==
    servers[CHOOSE i \in DOMAIN servers : servers[i].name = name].cfg

\* mutant: the entry is written into an empty mcpServers
SetServerAlone(servers, name, cfg) == << [name |-> name, cfg |-> cfg] >>

\* servers[name] = cfg: a new key goes to the end, an old one keeps its place
SetServer(servers, name, cfg) ==
    IF HasServer(servers, name)
    THEN [i \in DOMAIN servers |->
            IF servers[i].name = name THEN [name |-> name, cfg |-> cfg]
            ELSE servers[i]]
    ELSE Append(servers, [name |-> name, cfg |-> cfg])

\* del servers[name]
DelServer(servers, name) == SelectSeq(servers, LAMBDA e : e.name # name)

\* an `args` argument that is not a list
NotAList == <<"<not a list>">>

AdminError(what) == [kind |-> "error", error |-> what]

\* the arguments of add_server besides the name: an omitted url, command
\* or description is None, an omitted args or env is empty
AddRequests ==
    { [server_type |-> "stdio", url |-> None, command |-> "python",
       args |-> <<"srv.py">>, description |-> "d", env |-> <<>>],
      [server_type |-> "stdio", url |-> None, command |-> "python",
       args |-> <<"gone.py">>, description |-> None, env |-> <<>>],
      [server_type |-> "stdio", url |-> None, command |-> "python",
       args |-> <<"">>, description |-> None, env |-> <<>>],
      [server_type |-> "stdio", url |-> None, command |-> "python",
       args |-> NotAList, description |-> None, env |-> <<>>],
      [server_type |-> "stdio", url |-> None, command |-> None,
       args |-> <<>>, description |-> None, env |-> <<>>],
      [server_type |-> "stdio", url |-> "https://git/x", command |-> "python",
       args |-> <<"srv.py">>, description |-> None, env |-> <<>>],
      [server_type |-> "sse", url |-> "https://h/sse", command |-> None,
       args |-> <<>>, description |-> None,
       env |-> << << <<"k">>, "s3cret" >> >>],
      [server_type |-> "sse", url |-> "not-a-url", command |-> None,
       args |-> <<>>, description |-> None, env |-> <<>>],
      [server_type |-> "sse", url |-> None, command |-> None,
       args |-> <<>>, description |-> None, env |-> <<>>],
      [server_type |-> "ws", url |-> "https://h/sse", command |-> None,
       args |-> <<>>, description |-> None, env |-> <<>>] }

\* server_entry of an SSE server and of a stdio server
SseServerEntry(req) ==
    LET e == [url |-> req.url, type |-> "sse", description |-> req.description,
              enabled |-> TRUE]
    IN  IF TruthyList(req.env) THEN Put(e, "env", req.env) ELSE e

StdioServerEntry(req) ==
    LET e == [command |-> req.command, args |-> req.args, type |-> "stdio",
              description |-> req.description, enabled |-> TRUE]
    IN  IF TruthyStr(req.url) THEN Put(e, "url", req.url) ELSE e

\* mutant: add_server does not look whether the name is taken
AddCheckedOverwrites(name, req, registry, file, fsys, dirs, cloneOk) ==
    LET loaded == _load_mcp_config(file)
        servers == loaded.config.servers
        stop(what) == [error |-> what, file |-> loaded.file, gitDirs |-> dirs,
                       config |-> loaded.config, did |-> {}]
        go(entry, ds, did) ==
            [error |-> "", file |-> loaded.file, gitDirs |-> ds,
             config |-> [loaded.config EXCEPT
                           !.servers = SetServer(servers, name, entry)],
             did |-> did]
    IN  IF req.server_type \notin {"sse", "stdio"}
        THEN [error |-> "invalid server_type", file |-> file, gitDirs |-> dirs,
              config |-> EmptyConfig, did |-> {}]
        ELSE IF req.server_type = "sse" THEN
          IF ~ TruthyStr(req.url) THEN stop("url required")
          ELSE IF ~ HasHttpScheme(req.url) THEN stop("invalid url")
          ELSE go(SseServerEntry(req), dirs, {"probe"})
        ELSE
          IF ~ TruthyStr(req.command) THEN stop("command required")
          ELSE IF ~ TruthyList(req.args) THEN stop("args required")
          ELSE IF req.args = NotAList THEN stop("args not a list")
          ELSE IF TruthyStr(req.url) /\ ~ cloneOk
          THEN [error |-> "clone failed", file |-> loaded.file,
                gitDirs |-> dirs \ {name}, config |-> loaded.config,
                did |-> {"clone"}]
          ELSE LET ds == IF TruthyStr(req.url) THEN dirs \cup {name} ELSE dirs
                   did == IF TruthyStr(req.url) THEN {"clone"} ELSE {}
                   entry_point == req.args[1]
               IN  IF TruthyStr(entry_point) /\ ~ EntryExists(entry_point, fsys)
                   THEN [error |-> "entry point not found", file |-> loaded.file,
                         gitDirs |-> ds, config |-> loaded.config, did |-> did]
                   ELSE go(StdioServerEntry(req), ds, did)

\* add_server up to the save: what it returns early, or the document it is
\* about to save; the file and the clone directories it leaves behind; the
\* calls it has made to connect_sse_server ("probe") and clone_git_repo
\* ("clone")
AddChecked(name, req, registry, file, fsys, dirs, cloneOk) ==
    LET loaded == _load_mcp_config(file)
        servers == loaded.config.servers
        stop(what) == [error |-> what, file |-> loaded.file, gitDirs |-> dirs,
                       config |-> loaded.config, did |-> {}]
        go(entry, ds, did) ==
            [error |-> "", file |-> loaded.file, gitDirs |-> ds,
             config |-> [loaded.config EXCEPT
                           !.servers = SetServer(servers, name, entry)],
             did |-> did]
    IN  IF name \in DOMAIN registry
        THEN [error |-> "already exists", file |-> file, gitDirs |-> dirs,
              config |-> EmptyConfig, did |-> {}]
        ELSE IF req.server_type \notin {"sse", "stdio"}
        THEN [error |-> "invalid server_type", file |-> file, gitDirs |-> dirs,
              config |-> EmptyConfig, did |-> {}]
        ELSE IF HasServer(servers, name) THEN stop("already exists in mcp.json")
        ELSE IF req.server_type = "sse" THEN
          IF ~ TruthyStr(req.url) THEN stop("url required")
          ELSE IF ~ HasHttpScheme(req.url) THEN stop("invalid url")
          ELSE go(SseServerEntry(req), dirs, {"probe"})
        ELSE
          IF ~ TruthyStr(req.command) THEN stop("command required")
          ELSE IF ~ TruthyList(req.args) THEN stop("args required")
          ELSE IF req.args = NotAList THEN stop("args not a list")
          ELSE IF TruthyStr(req.url) /\ ~ cloneOk
          THEN [error |-> "clone failed", file |-> loaded.file,
                gitDirs |-> dirs \ {name}, config |-> loaded.config,
                did |-> {"clone"}]
          ELSE LET ds == IF TruthyStr(req.url) THEN dirs \cup {name} ELSE dirs
                   did == IF TruthyStr(req.url) THEN {"clone"} ELSE {}
                   entry_point == req.args[1]
               IN  IF TruthyStr(entry_point) /\ ~ EntryExists(entry_point, fsys)
                   THEN [error |-> "entry point not found", file |-> loaded.file,
                         gitDirs |-> ds, config |-> loaded.config, did |-> did]
                   ELSE go(StdioServerEntry(req), ds, did)

\* the handler has come to `if not _save_mcp_config(config)`
StartSave(op, name, req, config) ==
    /\ call' = [op |-> op, name |-> name, tool |-> "", kind |-> "none",
                req |-> req, config |-> config, had |-> REGISTRY,
                before |-> mcpJson, old |-> mcpJson', cleanup |-> "none"]
    /\ pc' = "save_open"
    /\ result' = NoResult

\* the handler returns before the save
ReturnEarly(op, name, req, what) ==
    /\ call' = [op |-> op, name |-> name, tool |-> "", kind |-> "none",
                req |-> req, config |-> EmptyConfig, had |-> REGISTRY,
                before |-> mcpJson, old |-> mcpJson', cleanup |-> "none"]
    /\ pc' = "done"
    /\ result' = AdminError(what)

add_server(name, req) ==
    /\ pc = "idle"
    /\ adminLog.ops < MaxAdmin
    /\ \E cloneOk \in BOOLEAN :
         LET c == AddChecked(name, req, REGISTRY, mcpJson, fs, gitDirs, cloneOk) IN
           /\ mcpJson' = c.file
           /\ gitDirs' = c.gitDirs
           /\ IF c.error # "" THEN ReturnEarly("add", name, req, c.error)
              ELSE StartSave("add", name, req, c.config)
           /\ adminLog' = [adminLog EXCEPT !.ops = @ + 1, !.added = NoAdd,
                                           !.reloaded = FALSE, !.did = c.did]
    /\ session' = NoSession
    /\ UNCHANGED <<REGISTRY, fs, SSE_AVAILABLE, live, scanLog, edits, invokeLog,
                   tmpJson, provider>>

\* the handler raises before the save
RaiseEarly(op, name, req, what) ==
    /\ call' = [op |-> op, name |-> name, tool |-> "", kind |-> "none",
                req |-> req, config |-> EmptyConfig, had |-> REGISTRY,
                before |-> mcpJson, old |-> mcpJson', cleanup |-> "none"]
    /\ pc' = "done"
    /\ result' = Raised(what)

\* remove_server; rmtreeOk is the outcome of removing the cloned repository
remove_server(name) ==
    /\ pc = "idle"
    /\ adminLog.ops < MaxAdmin
    /\ LET loaded == _load_mcp_config(mcpJson)
           servers == loaded.config.servers
       IN  /\ mcpJson' = loaded.file
           /\ IF ~ HasServer(servers, name)
              THEN /\ ReturnEarly("remove", name, <<>>, "not found in mcp.json")
                   /\ UNCHANGED gitDirs
              ELSE LET server_config == ServerCfg(servers, name) IN
                   IF ~ IsObject(server_config)
                   THEN /\ RaiseEarly("remove", name, <<>>, "AttributeError")
                        /\ UNCHANGED gitDirs
                   ELSE /\ IF /\ Get(server_config, "type", None) = "stdio"
                              /\ TruthyStr(Get(server_config, "url", None))
                              /\ name \in gitDirs
                           THEN \E rmtreeOk \in BOOLEAN :
                                  gitDirs' = IF rmtreeOk THEN gitDirs \ {name}
                                             ELSE gitDirs
                           ELSE UNCHANGED gitDirs
                        /\ StartSave("remove", name, <<>>,
                                     [loaded.config EXCEPT
                                        !.servers = DelServer(servers, name)])
    /\ adminLog' = [adminLog EXCEPT !.ops = @ + 1, !.added = NoAdd,
                                    !.reloaded = FALSE, !.did = {}]
    /\ session' = NoSession
    /\ UNCHANGED <<REGISTRY, fs, SSE_AVAILABLE, live, scanLog, edits, invokeLog,
                   tmpJson, provider>>

\* an `env` argument that is not a dictionary
NotADict == << << <<"?">>, "<not a dict>" >> >>

\* the keyword arguments of update_server, in the order they are given
UpdateRequests ==
    { <<>>,
      << <<"enabled", FALSE>> >>,
      << <<"enabled", TRUE>> >>,
      << <<"description", "d2">> >>,
      << <<"url", "not-a-url">> >>,
      << <<"url", "https://h/sse">> >>,
      << <<"command", "">> >>,
      << <<"command", "node">> >>,
      << <<"args", <<>> >> >>,
      << <<"args", <<"gone.py">> >> >>,
      << <<"args", NotAList>> >>,
      << <<"env", << << <<"k">>, "s3cret" >> >> >> >>,
      << <<"env", NotADict>> >>,
      << <<"bogus", "x">> >>,
      << <<"description", "d2">>, <<"bogus", "x">> >>,
      << <<"enabled", FALSE>>, <<"url", "not-a-url">> >> }

\* mutant: a field of an unknown name is written like any other
UpdateErrorAcceptsUnknown(server_type, key, value) ==
    IF key \in {"enabled", "description"} THEN ""
    ELSE IF key = "url" THEN
      IF server_type = "sse" /\ ~ HasHttpScheme(value) THEN "invalid url" ELSE ""
    ELSE IF key = "command" THEN
      IF server_type # "stdio" THEN "cannot set command" ELSE ""
    ELSE IF key = "args" THEN
      IF server_type # "stdio" THEN "cannot set args"
      ELSE IF value = NotAList THEN "args must be a list" ELSE ""
    ELSE IF key = "env" THEN
      IF server_type # "sse" THEN "cannot set env"
      ELSE IF value = NotADict THEN "env must be a dictionary" ELSE ""
    ELSE ""

\* one turn of `for key, value in kwargs.items()`: the error it returns
\* with, or "" when it assigns server_config[key]
UpdateError(server_type, key, value) ==
    IF key \in {"enabled", "description"} THEN ""
    ELSE IF key = "url" THEN
      IF server_type = "sse" /\ ~ HasHttpScheme(value) THEN "invalid url" ELSE ""
    ELSE IF key = "command" THEN
      IF server_type # "stdio" THEN "cannot set command" ELSE ""
    ELSE IF key = "args" THEN
      IF server_type # "stdio" THEN "cannot set args"
      ELSE IF value = NotAList THEN "args must be a list" ELSE ""
    ELSE IF key = "env" THEN
      IF server_type # "sse" THEN "cannot set env"
      ELSE IF value = NotADict THEN "env must be a dictionary" ELSE ""
    ELSE "unknown field"

\* the loop over kwargs: st.cfg is server_config as updated so far; an
\* assignment into an entry that is not an object raises TypeError
RECURSIVE UpdateLoop(_, _, _, _)
UpdateLoop(st, kwargs, i, server_type) ==
    IF i > Len(kwargs) \/ st.error # "" \/ st.raised THEN st
    ELSE LET key == kwargs[i][1]
             value == kwargs[i][2]
             err == UpdateError(server_type, key, value)
         IN  UpdateLoop(
               IF err # "" THEN [st EXCEPT !.error = err]
               ELSE IF ~ IsObject(st.cfg) THEN [st EXCEPT !.raised = TRUE]
               ELSE [st EXCEPT !.cfg = Put(@, key, value)],
               kwargs, i + 1, server_type)

\* "Validate updated configuration"
UpdateInvalid(server_type, server_config) ==
    IF server_type = "sse"
    THEN IF ~ Has(server_config, "url") \/ ~ TruthyStr(server_config["url"])
         THEN "url required" ELSE ""
    ELSE IF ~ Has(server_config, "command") \/ ~ TruthyStr(server_config["command"])
         THEN "command required"
    ELSE IF ~ Has(server_config, "args") \/ ~ TruthyList(server_config["args"])
         THEN "args required"
    ELSE ""

update_server(name, kwargs) ==
    /\ pc = "idle"
    /\ adminLog.ops < MaxAdmin
    /\ LET loaded == _load_mcp_config(mcpJson)
           servers == loaded.config.servers
       IN  /\ mcpJson' = loaded.file
           /\ IF ~ HasServer(servers, name)
              THEN ReturnEarly("update", name, kwargs, "not found in mcp.json")
              ELSE LET server_config == ServerCfg(servers, name)
                       server_type == _detect_server_type(server_config)
                       st == UpdateLoop([cfg |-> server_config, error |-> "",
                                         raised |-> FALSE],
                                        kwargs, 1, server_type)
                   IN  IF st.raised
                       THEN RaiseEarly("update", name, kwargs, "TypeError")
                       ELSE IF st.error # ""
                       THEN ReturnEarly("update", name, kwargs, st.error)
                       ELSE IF UpdateInvalid(server_type, st.cfg) # ""
                       THEN ReturnEarly("update", name, kwargs,
                                        UpdateInvalid(server_type, st.cfg))
                       ELSE StartSave("update", name, kwargs,
                                      [loaded.config EXCEPT
                                         !.servers = SetServer(servers, name, st.cfg)])
    /\ adminLog' = [adminLog EXCEPT !.ops = @ + 1, !.added = NoAdd,
                                    !.reloaded = FALSE, !.did = {}]
    /\ session' = NoSession
    /\ UNCHANGED <<REGISTRY, fs, gitDirs, SSE_AVAILABLE, live, scanLog, edits,
                   invokeLog, tmpJson, provider>>

FrameSave ==
    UNCHANGED <<fs, SSE_AVAILABLE, live, session, edits, invokeLog, provider>>

\* with open(temp_path, 'w') as f: the temp file is created or truncated,
\* or the open fails
SaveOpen ==
    /\ pc = "save_open"
    /\ \/ /\ tmpJson' = [state |-> "partial", servers |-> <<>>]
          /\ pc' = "save_dump"
       \/ /\ pc' = "save_failed"
          /\ UNCHANGED tmpJson
    /\ UNCHANGED <<REGISTRY, mcpJson, gitDirs, scanLog, call, result, adminLog>>
    /\ FrameSave

\* mutant: the document is dumped into mcp.json itself
SaveDumpInPlace ==
    /\ pc = "save_dump"
    /\ \/ /\ mcpJson' = call.config
          /\ tmpJson' = call.config
          /\ pc' = "save_replace"
       \/ /\ mcpJson' = [state |-> "malformed", servers |-> <<>>]
          /\ pc' = "save_failed"
          /\ UNCHANGED tmpJson
    /\ UNCHANGED <<REGISTRY, gitDirs, scanLog, call, result, adminLog>>
    /\ FrameSave

\* json.dump(config, f, indent=2) and the close of the file
SaveDump ==
    /\ pc = "save_dump"
    /\ \/ /\ tmpJson' = call.config
          /\ pc' = "save_replace"
       \/ /\ pc' = "save_failed"
          /\ UNCHANGED tmpJson
    /\ UNCHANGED <<REGISTRY, mcpJson, gitDirs, scanLog, call, result, adminLog>>
    /\ FrameSave

\* what the handler returns after its rescan
Success(c) ==
    IF c.op = "remove" THEN [kind |-> "success", name |-> c.name]
    ELSE [kind |-> "success", name |-> c.name,
          server |-> ServerCfg(c.config.servers, c.name)]

\* temp_path.replace(MCP_CONFIG_PATH); when it succeeds _save_mcp_config
\* returns True and the handler goes on to _scan_available() and returns
SaveReplace ==
    /\ pc = "save_replace"
    /\ \/ /\ tmpJson' = NoTmp
          /\ \E provision \in [Names -> Provisioning] :
               LET s == _scan_available(tmpJson, fs, gitDirs, provision) IN
                 /\ REGISTRY' = s.registry
                 /\ mcpJson' = s.file
                 /\ gitDirs' = s.gitDirs
                 /\ scanLog' = [raised |-> s.raised,
                                committed |-> IF s.raised THEN scanLog.committed
                                              ELSE s.registry,
                                scanned |-> tmpJson.servers,
                                log |-> s.log,
                                summary |-> IF s.summary
                                            THEN [logged |-> TRUE, found |-> s.found,
                                                  skipped |-> s.skipped,
                                                  errors |-> s.errors]
                                            ELSE NoSummary]
                 /\ result' = IF s.raised THEN Raised("scan") ELSE Success(call)
                 /\ adminLog' =
                      [adminLog EXCEPT
                         !.added = IF call.op = "add" /\ ~ s.raised
                                   THEN [valid |-> TRUE, name |-> call.name,
                                         server_type |-> call.req.server_type,
                                         url |-> call.req.url,
                                         command |-> call.req.command,
                                         args |-> call.req.args,
                                         description |-> call.req.description]
                                   ELSE NoAdd,
                         !.reloaded = FALSE]
          /\ pc' = "done"
          /\ UNCHANGED call
       \/ /\ pc' = "save_failed"
          /\ UNCHANGED <<REGISTRY, mcpJson, gitDirs, scanLog, call, result,
                         adminLog, tmpJson>>
    /\ FrameSave

\* mutant: the handler rebuilds the registry whether the save worked or not
SaveFailedRescans ==
    /\ pc = "save_failed"
    /\ IF tmpJson.state = "absent"
       THEN UNCHANGED <<tmpJson, call>>
       ELSE \/ /\ tmpJson' = NoTmp
               /\ call' = [call EXCEPT !.cleanup = "removed"]
            \/ /\ UNCHANGED tmpJson
               /\ call' = [call EXCEPT !.cleanup = "failed"]
    /\ result' = AdminError("Failed to save mcp.json")
    /\ pc' = "done"
    /\ REGISTRY' = _scan_available(mcpJson, fs, gitDirs,
                                   [n \in Names |-> "ok"]).registry
    /\ UNCHANGED <<mcpJson, gitDirs, scanLog, adminLog>>
    /\ FrameSave

\* the `except` of _save_mcp_config: a temp file that is there is unlinked,
\* which can fail in turn; the save returns False and the handler returns
\* {"error": "Failed to save mcp.json"}
SaveFailed ==
    /\ pc = "save_failed"
    /\ IF tmpJson.state = "absent"
       THEN UNCHANGED <<tmpJson, call>>
       ELSE \/ /\ tmpJson' = NoTmp
               /\ call' = [call EXCEPT !.cleanup = "removed"]
            \/ /\ UNCHANGED tmpJson
               /\ call' = [call EXCEPT !.cleanup = "failed"]
    /\ result' = AdminError("Failed to save mcp.json")
    /\ pc' = "done"
    /\ UNCHANGED <<REGISTRY, mcpJson, gitDirs, scanLog, adminLog>>
    /\ FrameSave

(***************************************************************************)
(* inspect_server / _inspect_once and call_server_tool / _call_tool_once,  *)
(* up to their first await.                                                *)
(***************************************************************************)
\* mutant: no membership test, REGISTRY[name] raises KeyError
UnknownServerRaises(name) ==
    /\ result' = Raised("KeyError")
    /\ pc' = "done"

\* `if name not in REGISTRY: return {"error": ...}`
UnknownServer(name) ==
    /\ result' = NotFound(name)
    /\ pc' = "done"

FrameRegistry ==
    UNCHANGED <<REGISTRY, mcpJson, fs, gitDirs, SSE_AVAILABLE, scanLog, edits,
                tmpJson, adminLog, provider>>

inspect_server(name) ==
    /\ pc = "idle"
    /\ IF name \notin DOMAIN REGISTRY
       THEN /\ call' = [op |-> "inspect", name |-> name, tool |-> "", kind |-> "none"]
            /\ UnknownServer(name)
       ELSE LET cfg == REGISTRY[name] IN
            /\ call' = [op |-> "inspect", name |-> name, tool |-> "",
                        kind |-> TransportOf(cfg)]
            /\ IF cfg.type = "sse"
               THEN IF ~ TruthyStr(cfg.url)
                    THEN /\ result' = Raised("ValueError")
                         /\ pc' = "done"
                    ELSE /\ pc' = IF ~ SSE_AVAILABLE THEN "probe"
                                  ELSE IF _create_sse_headers(cfg.env) # EmptyMap
                                  THEN "sse_open"
                                  ELSE "connect"
                         /\ result' = NoResult
               ELSE IF ~ TruthyStr(cfg.command) \/ ~ TruthyList(cfg.args)
                    THEN /\ result' = Raised("ValueError")
                         /\ pc' = "done"
                    ELSE /\ pc' = "connect"
                         /\ result' = NoResult
    /\ session' = NoSession
    /\ UNCHANGED <<live, invokeLog>>
    /\ FrameRegistry

SseUnavailable == [kind |-> "error", error |-> "SSE client not available"]

SseHeadersUnsupported == [kind |-> "error", error |-> "SSE with headers not implemented"]

call_server_tool(name, tool_name) ==
    /\ pc = "idle"
    /\ IF name \notin DOMAIN REGISTRY
       THEN /\ call' = [op |-> "invoke", name |-> name, tool |-> tool_name,
                        kind |-> "none"]
            /\ UnknownServer(name)
       ELSE LET cfg == REGISTRY[name] IN
            /\ call' = [op |-> "invoke", name |-> name, tool |-> tool_name,
                        kind |-> TransportOf(cfg)]
            /\ IF cfg.type = "sse"
               THEN IF ~ TruthyStr(cfg.url)
                    THEN /\ result' = Raised("ValueError")
                         /\ pc' = "done"
                    ELSE IF ~ SSE_AVAILABLE
                    THEN /\ result' = SseUnavailable
                         /\ pc' = "done"
                    ELSE /\ pc' = IF _create_sse_headers(cfg.env) # EmptyMap
                                  THEN "sse_open" ELSE "connect"
                         /\ result' = NoResult
               ELSE IF ~ TruthyStr(cfg.command) \/ ~ TruthyList(cfg.args)
                    THEN /\ result' = Raised("ValueError")
                         /\ pc' = "done"
                    ELSE /\ pc' = "connect"
                         /\ result' = NoResult
    /\ session' = NoSession
    /\ UNCHANGED <<live, invokeLog>>
    /\ FrameRegistry

(***************************************************************************)
(* The session steps.                                                      *)
(***************************************************************************)
\* mutant: a server that was called before is not connected again
ConnectReusesSession ==
    /\ pc = "connect"
    /\ IF invokeLog.valid /\ invokeLog.ok /\ invokeLog.server = call.name
       THEN /\ live' = live \cup {[kind |-> call.kind, server |-> call.name]}
            /\ session' = [NewSession(FALSE) EXCEPT !.initialized = TRUE,
                                                    !.nextId = invokeLog.lastId + 1]
            /\ pc' = "tools/list"
            /\ UNCHANGED <<result, invokeLog>>
       ELSE \/ /\ live' = live \cup {[kind |-> call.kind, server |-> call.name]}
               /\ session' = NewSession(TRUE)
               /\ pc' = "initialize"
               /\ UNCHANGED <<result, invokeLog>>
            \/ Raise("connect")
    /\ UNCHANGED call
    /\ FrameRegistry

\* stdio_client(params) / sse_client(url) and the ClientSession on top
Connect ==
    /\ pc = "connect"
    /\ \/ /\ live' = live \cup {[kind |-> call.kind, server |-> call.name]}
          /\ session' = NewSession(TRUE)
          /\ pc' = "initialize"
          /\ UNCHANGED <<result, invokeLog>>
       \/ Raise("connect")
    /\ UNCHANGED call
    /\ FrameRegistry

\* the request half of one `await session.<method>(...)`
Send ==
    /\ pc \in Methods
    /\ session.open
    /\ ~ Pending(session)
    /\ session' = SendRequest(session, pc)
    /\ UNCHANGED <<pc, call, live, result, invokeLog>>
    /\ FrameRegistry

\* any awaited request fails: the exception leaves the call
RequestFails ==
    /\ pc \in Methods
    /\ Pending(session)
    /\ Raise(pc)
    /\ UNCHANGED call
    /\ FrameRegistry

InitializeDone ==
    /\ pc = "initialize"
    /\ Pending(session)
    /\ session' = [Answer(session) EXCEPT !.initialized = TRUE]
    /\ pc' = "tools/list"
    /\ UNCHANGED <<call, live, result, invokeLog>>
    /\ FrameRegistry

\* mutant: the names of the previous connection to the server are used
ListedNamesStale(names) ==
    IF invokeLog.valid /\ invokeLog.listed /\ invokeLog.server = call.name
    THEN invokeLog.names ELSE names

\* names = [t.name for t in tools.tools]
ListedNames(names) == names

\* mutant: the requested tool is called without the check
ToolPresentUnchecked(tool_name, names) == TRUE

\* `tool_name not in names`, negated
ToolPresent(tool_name, names) == tool_name \in names

\* mutant: a missing tool raises
ToolMissingRaises(tool_name, names, s) ==
    /\ result' = Raised("ToolNotFound")
    /\ live' = CloseTransport(live, call, "raise")
    /\ invokeLog' = LogInvoke(s, FALSE)
    /\ session' = [s EXCEPT !.open = FALSE]
    /\ pc' = "done"

\* return {"error": f"Tool '{tool_name}' not found. Available: {names}"}
ToolMissing(tool_name, names, s) == Return(ToolNotFound(tool_name, names), s)

\* the tools/list response; an invoke checks the requested name against it
ListToolsDone ==
    /\ pc = "tools/list"
    /\ Pending(session)
    /\ \E response \in SUBSET ToolNames :
         LET names == ListedNames(response)
             s == [Answer(session) EXCEPT !.listed = TRUE, !.names = response]
         IN  IF call.op = "invoke" /\ ~ ToolPresent(call.tool, names)
             THEN ToolMissing(call.tool, names, s)
             ELSE /\ session' = s
                  /\ pc' = IF call.op = "invoke" THEN "tools/call" ELSE "prompts/list"
                  /\ UNCHANGED <<live, result, invokeLog>>
    /\ UNCHANGED call
    /\ FrameRegistry

ListPromptsDone ==
    /\ pc = "prompts/list"
    /\ Pending(session)
    /\ \E prompts \in PromptSets :
         session' = [Answer(session) EXCEPT !.prompts = prompts]
    /\ pc' = "resources/list"
    /\ UNCHANGED <<call, live, result, invokeLog>>
    /\ FrameRegistry

\* the last of the three lists: inspection returns its summary
ListResourcesDone ==
    /\ pc = "resources/list"
    /\ Pending(session)
    /\ \E resources \in ResourceSets :
         Return([kind |-> "summary", name |-> call.name, tools |-> session.names,
                 prompts |-> session.prompts, resources |-> resources],
                Answer(session))
    /\ UNCHANGED call
    /\ FrameRegistry

\* the tools/call response, normalised by _extract_result_content
CallToolDone ==
    /\ pc = "tools/call"
    /\ Pending(session)
    /\ \E raw \in RawResults :
         Return([kind |-> "content", raw |-> raw,
                 value |-> _extract_result_content(raw)],
                Answer(session))
    /\ UNCHANGED call
    /\ FrameRegistry

(***************************************************************************)
(* SSE servers that cannot take the MCP client: header variables present,  *)
(* or no SSE client in the runtime.                                        *)
(***************************************************************************)
HeadersNote == "SSE inspection with headers - full inspection may require direct MCP client support"
ProbeNote == "SSE client not available, connection test only"

\* httpx.AsyncClient + EventSource(url, headers=...)
SseOpen ==
    /\ pc = "sse_open"
    /\ \/ IF call.op = "invoke"
          THEN Return(SseHeadersUnsupported, session)
          ELSE /\ live' = live \cup {[kind |-> "stream", server |-> call.name]}
               /\ pc' = "sse_events"
               /\ UNCHANGED <<session, result, invokeLog>>
       \/ Raise("sse_open")
    /\ UNCHANGED call
    /\ FrameRegistry

\* mutant: the placeholder is returned without its note
SseEventsEndSilent ==
    /\ pc = "sse_events"
    /\ \/ Return([kind |-> "summary", name |-> call.name, tools |-> {},
                  prompts |-> {}, resources |-> {}],
                 session)
       \/ Raise("sse_events")
    /\ UNCHANGED call
    /\ FrameRegistry

\* the event stream ends (or breaks): inspection returns the placeholder
SseEventsEnd ==
    /\ pc = "sse_events"
    /\ \/ Return([kind |-> "summary", name |-> call.name, tools |-> {},
                  prompts |-> {}, resources |-> {}, note |-> HeadersNote],
                 session)
       \/ Raise("sse_events")
    /\ UNCHANGED call
    /\ FrameRegistry

StatusCodes == {200, 503}

\* client.get(url, headers=headers, timeout=5.0)
Probe ==
    /\ pc = "probe"
    /\ \/ \E code \in StatusCodes :
            Return([kind |-> "summary", name |-> call.name, tools |-> {},
                    prompts |-> {}, resources |-> {}, note |-> ProbeNote,
                    status_code |-> code],
                   session)
       \/ Raise("probe")
    /\ UNCHANGED call
    /\ FrameRegistry

\* the tool's return value (or its exception) goes back to the caller and
\* the server waits for the next request
Respond ==
    /\ pc = "done"
    /\ pc' = "idle"
    /\ call' = NoCall
    /\ session' = NoSession
    /\ result' = NoResult
    /\ UNCHANGED <<live, invokeLog>>
    /\ FrameRegistry

Next ==
    \/ Main
    \/ EditMcpJson
    \/ reload_servers
    \/ list_servers
    \/ \E name \in Names : inspect_server(name)
    \/ \E name \in Names, tool_name \in ToolNames : call_server_tool(name, tool_name)
    \/ Connect
    \/ Send
    \/ RequestFails
    \/ InitializeDone
    \/ ListToolsDone
    \/ ListPromptsDone
    \/ ListResourcesDone
    \/ CallToolDone
    \/ SseOpen
    \/ SseEventsEnd
    \/ Probe
    \/ Respond

Spec == Init /\ [][Next]_vars

(***************************************************************************)
(* The rebuild on its own: mcp.json is any document of two entries, one    *)
(* drawn from every combination of the fields the scan reads and the other *)
(* from a few fixed entries, in either order; the registry is built at     *)
(* start-up and rebuilt by reload_servers.                                 *)
(***************************************************************************)
ScanEntries ==
    { Restrict(full, ks) :
        full \in [type : {"stdio", "sse", "ws"}, command : {"", "python"},
                  args : {<<>>, <<"">>, <<"srv.py">>, <<"gone.py">>},
                  url : {"", "http://h/sse", "not-a-url"},
                  enabled : BOOLEAN],
        ks \in SUBSET {"type", "command", "args", "url", "enabled"} }
      \cup {NotAnObject}

PartnerEntries ==
    {StdioEntry, SseEntry, StdioGone, StdioDisabled, StdioGit, NotAnObject}

ScanDocuments ==
    { [state |-> "malformed", servers |-> <<>>] }
      \cup { Doc(x, y) : x \in ScanEntries, y \in PartnerEntries }
      \cup { Doc(y, x) : x \in ScanEntries, y \in PartnerEntries }

InitScan ==
    /\ REGISTRY = EmptyMap
    /\ mcpJson \in ScanDocuments
    /\ fs = {"srv.py"}
    /\ gitDirs = {}
    /\ SSE_AVAILABLE = TRUE
    /\ pc = "boot"
    /\ call = NoCall
    /\ live = {}
    /\ session = NoSession
    /\ result = NoResult
    /\ edits = 0
    /\ scanLog = NoScan
    /\ invokeLog = [valid |-> FALSE, server |-> "", kind |-> "none",
                    listed |-> FALSE, names |-> {}, lastId |-> 0, ok |-> FALSE]
    /\ tmpJson = NoTmp
    /\ adminLog = NoAdmin
    /\ provider = NoProvider

NextScan ==
    \/ Main
    \/ reload_servers
    \/ list_servers
    \/ Respond

SpecScan == InitScan /\ [][NextScan]_vars

(***************************************************************************)
(* The registry management on its own: the rebuild, the listing and the    *)
(* add / remove / update handlers with their saves, on a few documents.    *)
(* inspect_server and call_server_tool leave the registry, the files and   *)
(* the disk as they are and have no part here.                             *)
(***************************************************************************)
OneServer(name, server_config) ==
    [state |-> "ok", servers |-> << [name |-> name, cfg |-> server_config] >>]

\* the document with a top-level key of its own beside mcpServers
WithInputs(doc) ==
    [k \in DOMAIN doc \cup {"inputs"} |-> IF k = "inputs" THEN "x" ELSE doc[k]]

AdminDocuments ==
    { [state |-> "missing", servers |-> <<>>],
      [state |-> "malformed", servers |-> <<>>],
      WithInputs([state |-> "nokey", servers |-> <<>>]),
      OneServer("a", StdioEntry),
      OneServer("b", SseEntry),
      WithInputs(Doc(StdioEntry, SseWithEnv)),
      Doc(StdioGit, NotAnObject),
      Doc(StdioDisabled, UnknownType) }

InitAdmin ==
    /\ REGISTRY = EmptyMap
    /\ mcpJson \in AdminDocuments
    /\ fs = {"srv.py"}
    /\ gitDirs = {}
    /\ SSE_AVAILABLE = TRUE
    /\ pc = "boot"
    /\ call = NoCall
    /\ live = {}
    /\ session = NoSession
    /\ result = NoResult
    /\ edits = 0
    /\ scanLog = NoScan
    /\ invokeLog = [valid |-> FALSE, server |-> "", kind |-> "none",
                    listed |-> FALSE, names |-> {}, lastId |-> 0, ok |-> FALSE]
    /\ tmpJson = NoTmp
    /\ adminLog = NoAdmin
    /\ provider = NoProvider

NextAdmin ==
    \/ Main
    \/ EditMcpJson
    \/ reload_servers
    \/ list_servers
    \/ \E name \in Names, req \in AddRequests : add_server(name, req)
    \/ \E name \in Names : remove_server(name)
    \/ \E name \in Names, kwargs \in UpdateRequests : update_server(name, kwargs)
    \/ SaveOpen
    \/ SaveDump
    \/ SaveReplace
    \/ SaveFailed
    \/ Respond

SpecAdmin == InitAdmin /\ [][NextAdmin]_vars

(***************************************************************************)
(* _detect_server_type on its own: mcp.json holds one entry drawn from     *)
(* every combination of an absent, empty or non-empty type, command, args  *)
(* and url, and the detection is applied to it.                            *)
(***************************************************************************)
DetectInputs ==
    { Restrict(full, ks) :
        full \in [type : {"", "stdio", "sse", "ws"}, command : {"", "python"},
                  args : {<<>>, <<"srv.py">>}, url : {"", "http://h/sse"}],
        ks \in SUBSET {"type", "command", "args", "url"} }

InitDetect ==
    /\ REGISTRY = EmptyMap
    /\ \E server_config \in DetectInputs :
         mcpJson = [state |-> "ok",
                    servers |-> << [name |-> "a", cfg |-> server_config] >>]
    /\ fs = {"srv.py"}
    /\ gitDirs = {}
    /\ SSE_AVAILABLE = TRUE
    /\ pc = "detect"
    /\ call = NoCall
    /\ live = {}
    /\ session = NoSession
    /\ result = NoResult
    /\ edits = 0
    /\ scanLog = NoScan
    /\ invokeLog = [valid |-> FALSE, server |-> "", kind |-> "none",
                    listed |-> FALSE, names |-> {}, lastId |-> 0, ok |-> FALSE]
    /\ tmpJson = NoTmp
    /\ adminLog = NoAdmin
    /\ provider = NoProvider

\* server_type = _detect_server_type(server_config)
DetectType ==
    /\ pc = "detect"
    /\ result' = [kind |-> "server_type",
                  server_type |-> _detect_server_type(mcpJson.servers[1].cfg)]
    /\ pc' = "done"
    /\ UNCHANGED <<call, live, session, invokeLog>>
    /\ FrameRegistry

NextDetect == DetectType

SpecDetect == InitDetect /\ [][NextDetect]_vars

(***************************************************************************)
(* The translation of header variables on its own: an env of up to two     *)
(* variables, or no env at all, is handed to _create_sse_headers and to    *)
(* connect_sse_server.                                                     *)
(***************************************************************************)
MaxVars == 2        \* variables of one env

VarChars == {"a", "A", "_", "-"}

VarNames == { <<c>> : c \in VarChars } \cup { <<c, d>> : c \in VarChars, d \in VarChars }

VarValues == {"s3cret", "v2"}

\* the items of an env dict, in its order: the names are distinct
RECURSIVE EnvItems(_)
EnvItems(n) ==
    IF n = 0 THEN {<<>>}
    ELSE EnvItems(n - 1) \cup
         { Append(env, <<key, value>>) :
             env \in { e \in EnvItems(n - 1) : Len(e) = n - 1 },
             key \in VarNames, value \in VarValues }

EnvInputs ==
    { env \in EnvItems(MaxVars) :
        \A i \in DOMAIN env, j \in DOMAIN env : i # j => env[i][1] # env[j][1] }

InitHeaders ==
    /\ REGISTRY = EmptyMap
    /\ mcpJson = EmptyConfig
    /\ fs = {"srv.py"}
    /\ gitDirs = {}
    /\ SSE_AVAILABLE = TRUE
    /\ pc = "headers"
    /\ \/ call = [op |-> "headers", name |-> "", tool |-> "", kind |-> "none",
                  env |-> None]
       \/ \E env \in EnvInputs :
            call = [op |-> "headers", name |-> "", tool |-> "", kind |-> "none",
                    env |-> env]
    /\ live = {}
    /\ session = NoSession
    /\ result = NoResult
    /\ edits = 0
    /\ scanLog = NoScan
    /\ invokeLog = [valid |-> FALSE, server |-> "", kind |-> "none",
                    listed |-> FALSE, names |-> {}, lastId |-> 0, ok |-> FALSE]
    /\ tmpJson = NoTmp
    /\ adminLog = NoAdmin
    /\ provider = NoProvider

\* headers = _create_sse_headers(env) in _inspect_once / _call_tool_once,
\* and the headers of connect_sse_server(url, env)
CreateHeaders ==
    /\ pc = "headers"
    /\ result' = [kind |-> "headers",
                  headers |-> _create_sse_headers(call.env),
                  probe |-> connect_sse_server_headers(call.env)]
    /\ pc' = "done"
    /\ UNCHANGED <<call, live, session, invokeLog>>
    /\ FrameRegistry

NextHeaders == CreateHeaders

SpecHeaders == InitHeaders /\ [][NextHeaders]_vars

(***************************************************************************)
(* The catalogue cache on its own: API providers are fetched, time passes, *)
(* and the client is constructed anew from the cache file.  The cache file *)
(* is taken to be written whenever _save_cache is called.                  *)
(***************************************************************************)
MaxTicks == 4       \* times the clock moves on

ProviderIds == {"p", "q"}

\* the "servers" of a provider's response
ServerLists == {<<>>, <<"s1">>, <<"s1", "s2">>}

\* seconds between two looks at the clock
TimeSteps == {1, 3599}

InitCache ==
    /\ REGISTRY = EmptyMap
    /\ mcpJson = EmptyConfig
    /\ fs = {"srv.py"}
    /\ gitDirs = {}
    /\ SSE_AVAILABLE = TRUE
    /\ pc = "idle"
    /\ call = NoCall
    /\ live = {}
    /\ session = NoSession
    /\ result = NoResult
    /\ edits = 0
    /\ scanLog = NoScan
    /\ invokeLog = [valid |-> FALSE, server |-> "", kind |-> "none",
                    listed |-> FALSE, names |-> {}, lastId |-> 0, ok |-> FALSE]
    /\ tmpJson = NoTmp
    /\ adminLog = NoAdmin
    /\ provider = NoProvider

FrameCache ==
    UNCHANGED <<REGISTRY, mcpJson, fs, gitDirs, SSE_AVAILABLE, live, session,
                scanLog, edits, invokeLog, tmpJson, adminLog>>

\* time passes between two requests
Tick ==
    /\ pc = "idle"
    /\ provider.ticks < MaxTicks
    /\ \E d \in TimeSteps :
         provider' = [provider EXCEPT !.now = @ + d, !.ticks = @ + 1]
    /\ UNCHANGED <<pc, call, result>>
    /\ FrameCache

\* _fetch_api_servers of an enabled API provider that has a url: the cache
\* lookup, and on a miss the request (which takes no time or a second) and
\* the _set_cache of its answer; `stored` remembers what was last stored
\* under a key and when
_fetch_api_servers(provider_id) ==
    /\ pc = "idle"
    /\ LET cache_key == _get_cache_key(provider_id, "servers")
           cached == _get_from_cache(provider.cache, cache_key, provider.now)
       IN  IF cached.hit
           THEN /\ result' = [kind |-> "servers", servers |-> cached.data,
                              requested |-> FALSE]
                /\ provider' = [provider EXCEPT !.cache = cached.cache]
           ELSE \/ /\ result' = Raised("httpx")
                   /\ provider' = [provider EXCEPT !.cache = cached.cache]
                \/ \E servers \in ServerLists, d \in {0, 1} :
                     /\ d = 1 => provider.ticks < MaxTicks
                     /\ LET t == provider.now + d
                            c == _set_cache(cached.cache, cache_key, servers, t)
                        IN  provider' =
                              [cache |-> c, file |-> c, now |-> t,
                               ticks |-> provider.ticks + d,
                               stored |-> Put(provider.stored, cache_key,
                                              [data |-> servers, at |-> t])]
                     /\ result' = [kind |-> "servers", servers |-> servers,
                                   requested |-> TRUE]
    /\ call' = [op |-> "fetch", name |-> provider_id, tool |-> "", kind |-> "none",
                at |-> provider.now, had |-> provider.cache]
    /\ pc' = "done"
    /\ FrameCache

\* ProviderClient() of a new process: _load_cache reads the cache file,
\* drops the expired entries and, if there were any, saves the cache
NewClient ==
    /\ pc = "idle"
    /\ LET loaded == _load_cache(provider.file, provider.now) IN
         /\ loaded # provider.cache \/ loaded # provider.file
         /\ provider' = [provider EXCEPT !.cache = loaded, !.file = loaded]
    /\ UNCHANGED <<pc, call, result>>
    /\ FrameCache

NextCache ==
    \/ Tick
    \/ \E provider_id \in ProviderIds : _fetch_api_servers(provider_id)
    \/ NewClient
    \/ Respond

SpecCache == InitCache /\ [][NextCache]_vars

(***************************************************************************)
(* Properties.                                                             *)
(***************************************************************************)
ProcessesAlive == { r \in live : r.kind = "process" }

InFlight == pc \notin {"boot", "exited", "idle", "done"}

SentMethods(s) == [i \in DOMAIN s.sent |-> s.sent[i].method]

HasSent(s, method) == \E i \in DOMAIN s.sent : s.sent[i].method = method

\* the call in flight follows a finished invoke that reached the same
\* process-transport server and ended without a failure
SecondCallToSameProcess ==
    /\ call.op = "invoke"
    /\ call.kind = "process"
    /\ InFlight
    /\ invokeLog.valid
    /\ invokeLog.ok
    /\ invokeLog.kind = "process"
    /\ invokeLog.server = call.name

\* C1: at most one server child process owned by the proxy is alive at any
\* time, a live process belongs to the server of the call in flight, and
\* so once a call addresses server B no process of a server A # B is alive.
C1_AtMostOneProcess ==
    /\ Cardinality(ProcessesAlive) <= 1
    /\ \A r \in ProcessesAlive : InFlight /\ r.server = call.name
    /\ (invokeLog.valid /\ call.op = "invoke" /\ invokeLog.server # call.name)
         => \A r \in ProcessesAlive : r.server # invokeLog.server

C1_Witness ==
    /\ call.op = "invoke"
    /\ invokeLog.valid
    /\ invokeLog.kind = "process"
    /\ invokeLog.server # call.name
    /\ [kind |-> "process", server |-> call.name] \in live

C3_ToolNotFound ==
    (call.op = "invoke" /\ session.listed /\ call.tool \notin session.names)
      => /\ pc = "done"
         /\ result = ToolNotFound(call.tool, session.names)
         /\ SentMethods(session) = <<"initialize", "tools/list">>
         /\ session.spawned
         /\ live = {}

C3_Witness ==
    /\ call.op = "invoke"
    /\ session.listed
    /\ session.names # {}
    /\ call.tool \notin session.names
    /\ result.kind = "error"

\* C4: in one session, requests other than initialize are sent only after
\* initialize was answered; tools/call only after a tools/list response
\* that names the requested tool; every request but the last has been
\* answered; ids increase in sending order.
C4_ProtocolOrder ==
    /\ \A i \in DOMAIN session.sent :
         /\ session.sent[i].method # "initialize"
              => session.initialized /\ i > 1 /\ session.sent[1].method = "initialize"
         /\ session.sent[i].method = "tools/call"
              => /\ session.listed
                 /\ call.tool \in session.names
                 /\ \E j \in 1..(i - 1) : session.sent[j].method = "tools/list"
         /\ \A j \in DOMAIN session.sent : i < j => session.sent[i].id < session.sent[j].id
    /\ session.answered >= Len(session.sent) - 1
    /\ session.answered <= Len(session.sent)

C4_Witness ==
    /\ pc = "tools/call"
    /\ Pending(session)
    /\ HasSent(session, "tools/call")

(***************************************************************************)
(* The Result Normalizer as the claim words it, and as amended.            *)
(***************************************************************************)
Flatten(seqs) ==
    LET RECURSIVE F(_)
        F(k) == IF k = 0 THEN <<>> ELSE F(k - 1) \o seqs[k]
    IN  F(Len(seqs))

\* texts joined by newlines: each text but the first preceded by a newline
JoinedByNewlines(texts) ==
    Flatten([i \in DOMAIN texts |-> IF i = 1 THEN texts[i] ELSE <<NL>> \o texts[i]])

TextsWhere(raw, Keep(_)) ==
    LET blocks == SelectSeq(Get(raw, "content", <<>>), Keep)
    IN  [i \in DOMAIN blocks |-> blocks[i]["text"]]

HasTextField(b) == Has(b, "text")

HasNonEmptyText(b) == Has(b, "text") /\ b["text"] # <<>>

ClaimedSentinel == [status |-> "ok", note |-> "no content"]

NormalizedAsClaimed(raw) ==
    IF raw.structuredContent # None
    THEN [kind |-> "structured", structured |-> raw.structuredContent]
    ELSE IF TextsWhere(raw, HasTextField) # <<>>
    THEN [kind |-> "text", text |-> JoinedByNewlines(TextsWhere(raw, HasTextField))]
    ELSE [kind |-> "object", object |-> ClaimedSentinel]

NormalizedAsAmended(raw) ==
    IF raw.structuredContent # None
    THEN [kind |-> "structured", structured |-> raw.structuredContent]
    ELSE IF TextsWhere(raw, HasNonEmptyText) # <<>>
    THEN [kind |-> "text", text |-> JoinedByNewlines(TextsWhere(raw, HasNonEmptyText))]
    ELSE [kind |-> "object",
          object |-> [result |-> "ok", note |-> "No structured/text content returned."]]

\* C5 as stated: structured content verbatim, else the texts of all blocks
\* that have a text field joined by newlines, else {status: "ok", note:
\* "no content"}.
C5_NormalizerAsClaimed ==
    result.kind = "content" => result.value = NormalizedAsClaimed(result.raw)

\* C5 amended: structured content verbatim if non-null; else the non-empty
\* texts joined by newlines in block order if there is one; else the object
\* {result: "ok", note: "No structured/text content returned."}.
C5_NormalizerAmended ==
    result.kind = "content" => result.value = NormalizedAsAmended(result.raw)

C5_Witness ==
    /\ result.kind = "content"
    /\ result.raw.structuredContent = None
    /\ Has(result.raw, "content")
    /\ Len(result.raw.content) = 2
    /\ result.raw.content[1] = [text |-> <<>>]
    /\ result.raw.content[2] = [text |-> <<"b">>]
    /\ result.value = [kind |-> "text", text |-> <<"b">>]

\* C6: once a one-shot call on a process server has returned or raised,
\* whatever the exit path, no child process is alive.
C6_TornDownOnEveryExit ==
    (pc = "done" /\ call.op \in {"inspect", "invoke"} /\ call.kind = "process")
      => ProcessesAlive = {}

C6_Witness ==
    /\ pc = "done"
    /\ call.op \in {"inspect", "invoke"}
    /\ call.kind = "process"
    /\ session.spawned
    /\ result.kind = "raised"
    /\ HasSent(session, "tools/list")

C8_UnknownNameIsNotFound ==
    [][ \A name \in Names :
          (name \notin DOMAIN REGISTRY
           /\ (inspect_server(name)
               \/ \E tool_name \in ToolNames : call_server_tool(name, tool_name)))
          => /\ result' = NotFound(name)
             /\ pc' = "done"
             /\ live' = live
             /\ ~ session'.open
             /\ REGISTRY' = REGISTRY
             /\ mcpJson' = mcpJson ]_vars

C8_Witness ==
    /\ pc = "done"
    /\ call.op \in {"inspect", "invoke"}
    /\ call.name \notin DOMAIN REGISTRY
    /\ result.kind = "error"
    /\ result.error = "NotFound"
    /\ DOMAIN REGISTRY # {}

\* C9: no caller-facing operation ends with an exception: whenever an
\* operation has finished, its outcome is a payload, not a raised failure.
C9_NoExceptionPropagates ==
    pc = "done" => result.kind # "raised"

\* C10: a reader only ever sees the complete result of a rebuild: between
\* operations REGISTRY is the registry built by the last rebuild that ran
\* to completion.
C10_RegistryReplacedWholesale ==
    pc \notin {"boot", "exited"} => REGISTRY = scanLog.committed

NonEmpty(cfg, k) ==
    k \in DOMAIN cfg /\ (IF k = "args" THEN cfg[k] # <<>> ELSE cfg[k] # "")

\* the transport kind the detection rule assigns to an entry
ClaimedKind(cfg) ==
    CASE "type" \in DOMAIN cfg -> cfg["type"]
      [] "type" \notin DOMAIN cfg /\ NonEmpty(cfg, "command") /\ NonEmpty(cfg, "args")
           -> "stdio"
      [] "type" \notin DOMAIN cfg /\ NonEmpty(cfg, "url")
           /\ ~ NonEmpty(cfg, "command") /\ ~ NonEmpty(cfg, "args")
           -> "sse"
      [] OTHER -> "stdio"

\* C15: for every combination of an absent, empty or non-empty type,
\* command, args and url, the detected kind is the explicit type when the
\* field is there (whatever its value); else process for a non-empty command
\* with non-empty args; else stream for a non-empty url with no non-empty
\* command and no non-empty args; else process.
C15_DetectionRule ==
    (pc = "done" /\ result.kind = "server_type")
      => result.server_type = ClaimedKind(mcpJson.servers[1].cfg)

C15_Witness ==
    /\ pc = "done"
    /\ result.kind = "server_type"
    /\ mcpJson.servers[1].cfg = [command |-> "python", url |-> "http://h/sse"]
    /\ result.server_type = "stdio"

(***************************************************************************)
(* The rebuild: what a document's entries are, said without the scan.      *)
(***************************************************************************)
\* the entries the last rebuild read, in document order
Scanned == scanLog.scanned

Rebuilt == pc # "boot"

IsDisabled(cfg) == IsObject(cfg) /\ "enabled" \in DOMAIN cfg /\ cfg["enabled"] = FALSE

\* an enabled process descriptor with a launch command and launch args
ProcessEntry(cfg) ==
    /\ IsObject(cfg)
    /\ ~ IsDisabled(cfg)
    /\ ClaimedKind(cfg) = "stdio"
    /\ NonEmpty(cfg, "command")
    /\ NonEmpty(cfg, "args")

StreamEntry(cfg) ==
    /\ IsObject(cfg)
    /\ ~ IsDisabled(cfg)
    /\ ClaimedKind(cfg) = "sse"

\* a process descriptor whose entry-point file is not on disk
EntryPathMissing(cfg) ==
    /\ ProcessEntry(cfg)
    /\ cfg["args"][1] # ""
    /\ cfg["args"][1] \notin fs

\* an entry that passes every validation rule; a Git-based one counts once
\* its repository is there
ValidEntry(name, cfg) ==
    \/ /\ StreamEntry(cfg)
       /\ NonEmpty(cfg, "url")
       /\ HasHttpScheme(cfg["url"])
    \/ /\ ProcessEntry(cfg)
       /\ cfg["args"][1] \in fs
       /\ NonEmpty(cfg, "url") => name \in gitDirs

LinesOf(name) ==
    { scanLog.log[i].line : i \in { j \in DOMAIN scanLog.log : scanLog.log[j].name = name } }

\* C11: a rebuild is never aborted by one entry: whatever else the document
\* holds (an entry of the wrong shape included), the rebuild does not raise
\* and every valid enabled entry of the document is in the Registry after it.
C11_RebuildNeverAborted ==
    Rebuilt =>
      /\ ~ scanLog.raised
      /\ \A i \in DOMAIN Scanned :
           ValidEntry(Scanned[i].name, Scanned[i].cfg)
             => Scanned[i].name \in DOMAIN REGISTRY

\* C12: after a rebuild an entry whose `enabled` is false is no key of the
\* Registry and is logged as skipped, never as an error (the summary's
\* error count is the number of enabled entries left out, its skipped count
\* the number of disabled ones); an entry without `enabled` is never
\* skipped as disabled.
C12_DisabledSkipped ==
    Rebuilt =>
      /\ \A i \in DOMAIN Scanned :
           /\ IsDisabled(Scanned[i].cfg)
                => /\ Scanned[i].name \notin DOMAIN REGISTRY
                   /\ LinesOf(Scanned[i].name) \subseteq {"disabled"}
           /\ (IsObject(Scanned[i].cfg) /\ "enabled" \notin DOMAIN Scanned[i].cfg)
                => "disabled" \notin LinesOf(Scanned[i].name)
      /\ scanLog.summary.logged
           => /\ scanLog.summary.skipped
                   = Cardinality({ i \in DOMAIN Scanned : IsDisabled(Scanned[i].cfg) })
              /\ scanLog.summary.errors
                   = Cardinality({ i \in DOMAIN Scanned :
                                     /\ ~ IsDisabled(Scanned[i].cfg)
                                     /\ Scanned[i].name \notin DOMAIN REGISTRY })

C12_Witness ==
    /\ pc = "done"
    /\ call.op = "reload"
    /\ Len(Scanned) = 2
    /\ IsDisabled(Scanned[1].cfg)
    /\ IsObject(Scanned[2].cfg)
    /\ "enabled" \notin DOMAIN Scanned[2].cfg
    /\ DOMAIN REGISTRY = {Scanned[2].name}
    /\ scanLog.summary = [logged |-> TRUE, found |-> 1, skipped |-> 1, errors |-> 0]

\* C13: a process descriptor whose entry-point file is not on disk at
\* rebuild time is not in the Registry after the rebuild, and the rebuild
\* logs a summary whose error count covers the entries left out this way.
C13_MissingPathExcludedAndCounted ==
    Rebuilt =>
      \A i \in DOMAIN Scanned :
        EntryPathMissing(Scanned[i].cfg)
          => /\ Scanned[i].name \notin DOMAIN REGISTRY
             /\ scanLog.summary.logged
             /\ scanLog.summary.errors
                  >= Cardinality({ j \in DOMAIN Scanned : EntryPathMissing(Scanned[j].cfg) })

\* C14: no stream descriptor whose endpoint URL is empty or does not begin
\* with http:// or https:// is ever in the Registry.
C14_StreamUrlHasScheme ==
    \A n \in DOMAIN REGISTRY :
      REGISTRY[n].type = "sse"
        => TruthyStr(REGISTRY[n].url) /\ HasHttpScheme(REGISTRY[n].url)

C17_MalformedGivesEmptyRegistry ==
    (pc = "done" /\ call.op = "reload" /\ mcpJson.state \in {"malformed", "nokey"})
      => /\ result = [kind |-> "ok", count |-> 0]
         /\ REGISTRY = EmptyMap

C17_Witness ==
    /\ pc = "done"
    /\ call.op = "reload"
    /\ mcpJson.state = "malformed"
    /\ call.had = {"a", "b"}
    /\ REGISTRY = EmptyMap
    /\ result = [kind |-> "ok", count |-> 0]

(***************************************************************************)
(* The registry management.                                                *)
(***************************************************************************)
\* the listing has a summary for the server add_server was given, with the
\* fields it was given
ListsAdded(servers, added) ==
    \E info \in servers :
      /\ info.name = added.name
      /\ info.type = added.server_type
      /\ info.description = added.description
      /\ info.enabled = TRUE
      /\ IF info.type = "sse" THEN info.url = added.url
         ELSE info.command = added.command /\ info.args = added.args

\* C18: after add_server has returned success, every list_servers that
\* follows a reload_servers (once or many times over, the document not
\* having changed since) has a summary for that name with the type,
\* description and url, or command and args, that add_server was given.
C18_AddReloadListRoundTrip ==
    (pc = "done" /\ call.op = "list" /\ adminLog.added.valid /\ adminLog.reloaded)
      => ListsAdded(result.servers, adminLog.added)

InSave == pc \in {"save_open", "save_dump", "save_replace", "save_failed"}

AdminDone == pc = "done" /\ call.op \in {"add", "remove", "update"}

\* the handler came to the save and the save returned False
SaveFailedDone ==
    AdminDone /\ result = AdminError("Failed to save mcp.json")

\* the handler came to the save and the save returned True
SavedDone ==
    AdminDone /\ (result.kind = "success" \/ result = Raised("scan"))

\* C19 as stated: while a save runs mcp.json is the complete old document,
\* after a save that worked it is the complete new one and no temp file is
\* left; a save that failed is reported, has left mcp.json as it was and
\* has removed the temp file.
C19_SaveAtomicTempRemoved ==
    /\ InSave => mcpJson = call.old
    /\ SavedDone => mcpJson = call.config /\ tmpJson = NoTmp
    /\ SaveFailedDone => mcpJson = call.old /\ tmpJson = NoTmp

\* C19 amended: as stated, but after a save that failed the temp file is
\* gone only if it could be unlinked: when the unlink fails in turn, that is
\* logged and the temp file stays.
C19_SaveAtomicTempRemovedIfPossible ==
    /\ InSave => mcpJson = call.old
    /\ SavedDone => mcpJson = call.config /\ tmpJson = NoTmp
    /\ SaveFailedDone
         => /\ mcpJson = call.old
            /\ tmpJson = NoTmp \/ call.cleanup = "failed"

C19_Witness ==
    /\ SaveFailedDone
    /\ call.cleanup = "removed"
    /\ call.config # call.old
    /\ mcpJson = call.old
    /\ tmpJson = NoTmp

\* C20 as stated: when the save fails inside add_server, remove_server or
\* update_server the handler returns an error payload, REGISTRY is what it
\* was before the call and mcp.json is what it was before the call.
C20_WriteFailureChangesNothing ==
    SaveFailedDone
      => /\ result.kind = "error"
         /\ REGISTRY = call.had
         /\ mcpJson = call.before

\* C20 amended: as stated, but a document that did not exist before the
\* call exists afterwards, empty: the read at the start of the handler has
\* created it.
C20_WriteFailureKeepsDocument ==
    SaveFailedDone
      => /\ result.kind = "error"
         /\ REGISTRY = call.had
         /\ \/ mcpJson = call.before
            \/ call.before.state = "missing" /\ mcpJson = EmptyConfig

C20_Witness ==
    /\ SaveFailedDone
    /\ call.op = "update"
    /\ call.config # call.before
    /\ DOMAIN REGISTRY = {"a", "b"}
    /\ REGISTRY = call.had
    /\ mcpJson = call.before

\* the lines the rebuild that wrote `log` logged for `name`
LinesIn(log, name) ==
    { log[i].line : i \in { j \in DOMAIN log : log[j].name = name } }

\* the rebuild tried to provision `name` and the clone or the installation
\* of the dependencies failed
ProvisionFailed(log, name) ==
    LinesIn(log, name) \cap {"clone failed", "install failed"} # {}

ProvisionAttempted(log, name) ==
    LinesIn(log, name) \cap {"cloned", "clone failed", "install failed"} # {}

\* C21: an entry whose provisioning failed in a rebuild (clone failed or
\* timed out, or dependency installation failed) is not in the Registry
\* after that rebuild, and the next rebuild of the same document attempts
\* the provisioning again.
C21_ProvisionFailureRejectsAndRetries ==
    [][\A n \in Names :
         /\ ProvisionFailed(scanLog.log', n) => n \notin DOMAIN REGISTRY'
         /\ (/\ ProvisionFailed(scanLog.log, n)
             /\ pc = "idle" /\ pc' = "done" /\ call'.op = "reload"
             /\ scanLog.scanned' = scanLog.scanned)
              => ProvisionAttempted(scanLog.log', n)]_vars

\* the entries of the last rebuild's document that are enabled and pass
\* every validation rule
ValidEnabled ==
    { i \in DOMAIN Scanned : ValidEntry(Scanned[i].name, Scanned[i].cfg) }

\* C22: reload_servers returns a count that is the number of keys of
\* REGISTRY after the rebuild and the number of entries of the document
\* that are enabled and pass validation; the rebuild's counts of registered,
\* skipped and rejected entries add up to the number of entries.
C22_ReloadCount ==
    (pc = "done" /\ call.op = "reload")
      => /\ result.kind = "ok"
         /\ result.count = Cardinality(DOMAIN REGISTRY)
         /\ result.count = Cardinality(ValidEnabled)
         /\ scanLog.summary.found + scanLog.summary.skipped
              + scanLog.summary.errors = Len(Scanned)

SecretValues == {"s3cret", "hunter2"}

\* the descriptor with every header variable's value replaced by v
WithSecrets(cfg, v) ==
    IF cfg.type = "sse" /\ TruthyList(cfg.env)
    THEN [cfg EXCEPT !.env = [i \in DOMAIN @ |-> <<@[i][1], v>>]]
    ELSE cfg

ListOf(registry) == { ServerInfo(n, registry[n]) : n \in DOMAIN registry }

SummaryOf(name) == CHOOSE info \in result.servers : info.name = name

ListDone == pc = "done" /\ call.op = "list"

StreamNames == { n \in DOMAIN REGISTRY : REGISTRY[n].type = "sse" }

\* what list_servers returns is what it would return on any registry that
\* differs from REGISTRY in the values of header variables only
ListHidesSecrets ==
    \A v \in SecretValues :
      result.servers = ListOf([n \in DOMAIN REGISTRY |-> WithSecrets(REGISTRY[n], v)])

\* C23 as stated: list_servers returns the same on registries that differ
\* in the values of header variables only, and the summary of a stream
\* descriptor reports its transport-specific fields, the URL and the header
\* variables, the values of the header variables masked.
C23_ListMasksSecrets ==
    ListDone =>
      /\ ListHidesSecrets
      /\ \A n \in StreamNames :
           /\ SummaryOf(n).url = REGISTRY[n].url
           /\ "env" \in DOMAIN SummaryOf(n)
           /\ SummaryOf(n).env = _mask_env_values(REGISTRY[n].env)

\* C23 amended: list_servers returns the same on registries that differ in
\* the values of header variables only; the summary of a stream descriptor
\* reports the URL and leaves the header variables out, names and values.
C23_ListOmitsHeaderVariables ==
    ListDone =>
      /\ ListHidesSecrets
      /\ \A n \in StreamNames :
           /\ SummaryOf(n).url = REGISTRY[n].url
           /\ "env" \notin DOMAIN SummaryOf(n)

C23_Witness ==
    /\ ListDone
    /\ \E n \in StreamNames :
         /\ TruthyList(REGISTRY[n].env)
         /\ REGISTRY[n].env[1][2] = "s3cret"
         /\ SummaryOf(n).url = "http://h/sse"
\* the session of the call ran the handshake and the three list requests
FullInspection ==
    /\ session.initialized
    /\ session.answered = 4
    /\ [i \in DOMAIN session.sent |-> session.sent[i].method]
         = <<"initialize", "tools/list", "prompts/list", "resources/list">>

StreamInspected ==
    /\ pc = "done"
    /\ call.op = "inspect"
    /\ call.kind = "stream"
    /\ result.kind = "summary"

\* C24: the summary of a stream inspection that did not run the handshake
\* and the three list requests (no SSE client, or header variables present)
\* has a note field; a summary without a note comes from a full inspection.
C24_DegradedInspectionHasNote ==
    StreamInspected =>
      /\ (~ SSE_AVAILABLE \/ TruthyList(REGISTRY[call.name].env))
           => "note" \in DOMAIN result
      /\ "note" \notin DOMAIN result <=> FullInspection

C24_Witness ==
    /\ StreamInspected
    /\ SSE_AVAILABLE
    /\ TruthyList(REGISTRY[call.name].env)
    /\ ~ FullInspection
    /\ result.note = HeadersNote
\* the header name the naming convention gives the variable `key`
ClaimedHeaderName(key) ==
    <<"X", "-", "M", "C", "P", "-">>
      \o [i \in DOMAIN key |-> CASE key[i] = "a" -> "A"
                                 [] key[i] = "_" -> "-"
                                 [] OTHER -> key[i]]

HeadersDone == pc = "done" /\ call.op = "headers"

HasVars == TruthyList(call.env)

\* C25 as stated: every variable k with value v yields the header "X-MCP-"
\* + uppercase(k) with hyphens for underscores, carrying v; an absent or
\* empty env yields no headers; the translation of _create_sse_headers and
\* the one of connect_sse_server give the same headers.
C25_EveryVariableYieldsItsHeader ==
    HeadersDone =>
      /\ HasVars =>
           \A i \in DOMAIN call.env :
             /\ ClaimedHeaderName(call.env[i][1]) \in DOMAIN result.headers
             /\ result.headers[ClaimedHeaderName(call.env[i][1])] = call.env[i][2]
      /\ ~ HasVars => result.headers = EmptyMap
      /\ result.probe = result.headers

\* C25 amended: the headers are the names "X-MCP-" + uppercase(k) with
\* hyphens for underscores of the variables k and no others; a header
\* carries the value of the last variable of the env with that header
\* name, which is the variable's own value whenever no later variable
\* translates to the same name; an absent or empty env yields no headers;
\* both translations give the same headers.
C25_LastVariableOfAHeaderWins ==
    HeadersDone =>
      /\ HasVars =>
           /\ DOMAIN result.headers
                = { ClaimedHeaderName(call.env[i][1]) : i \in DOMAIN call.env }
           /\ \A i \in DOMAIN call.env :
                (\A j \in DOMAIN call.env :
                    j > i => ClaimedHeaderName(call.env[j][1])
                               # ClaimedHeaderName(call.env[i][1]))
                  => result.headers[ClaimedHeaderName(call.env[i][1])]
                       = call.env[i][2]
      /\ ~ HasVars => result.headers = EmptyMap
      /\ result.probe = result.headers

C25_Witness ==
    /\ HeadersDone
    /\ HasVars
    /\ call.env = << << <<"a", "_">>, "s3cret" >>, << <<"_", "A">>, "v2" >> >>
    /\ result.headers[<<"X", "-", "M", "C", "P", "-", "A", "-">>] = "s3cret"
    /\ result.probe[<<"X", "-", "M", "C", "P", "-", "-", "A">>] = "v2"
FetchDone == pc = "done" /\ call.op = "fetch"

FetchedKey == <<call.name, "servers">>

\* the fetch returned a list without a request to the provider
ServedFromCache ==
    FetchDone /\ result.kind = "servers" /\ ~ result.requested

\* the entry the fetch found under its key had expired
FoundExpired ==
    /\ FetchDone
    /\ FetchedKey \in DOMAIN call.had
    /\ call.had[FetchedKey].expires_at < call.at

\* C26: a list fetched from a provider is stored under the key of provider
\* id and operation with expires_at = time of the fetch + 3600; a fetch is
\* answered from the cache, without a request, only with the list last
\* stored under the key and only while the clock has not passed its expiry;
\* an entry found expired is deleted by the lookup and never returned.
C26_CatalogCacheTtl ==
    /\ (FetchDone /\ result.kind = "servers" /\ result.requested)
         => /\ FetchedKey \in DOMAIN provider.cache
            /\ provider.cache[FetchedKey]
                 = [data |-> result.servers, expires_at |-> provider.now + 3600]
    /\ ServedFromCache
         => /\ FetchedKey \in DOMAIN provider.stored
            /\ result.servers = provider.stored[FetchedKey].data
            /\ call.at <= provider.stored[FetchedKey].at + 3600
    /\ FoundExpired
         => /\ ~ ServedFromCache
            /\ \/ FetchedKey \notin DOMAIN provider.cache
               \/ result.kind = "servers" /\ result.requested

C26_Witness ==
    /\ ServedFromCache
    /\ call.at = provider.stored[FetchedKey].at + 3600
    /\ result.servers = <<"s1">>
    /\ \E k \in DOMAIN provider.cache :
         k # FetchedKey /\ provider.cache[k].data # result.servers
AddDone == pc = "done" /\ call.op = "add"

\* the name was a key of REGISTRY or of the document when add_server was
\* called
NameTaken ==
    \/ call.name \in DOMAIN call.had
    \/ /\ call.before.state = "ok"
       /\ \E i \in DOMAIN call.before.servers :
            call.before.servers[i].name = call.name

\* C27: add_server of a name that is a key of REGISTRY or of the document
\* (a disabled entry that is not in REGISTRY included) returns an error,
\* has called neither clone_git_repo nor connect_sse_server, and leaves
\* mcp.json and REGISTRY as they were.
C27_AddNeverOverwrites ==
    (AddDone /\ NameTaken)
      => /\ result.kind = "error"
         /\ adminLog.did = {}
         /\ mcpJson = call.before
         /\ REGISTRY = call.had

C27_Witness ==
    /\ AddDone
    /\ call.name \notin DOMAIN call.had
    /\ call.before = Doc(StdioDisabled, UnknownType)
    /\ call.req.url = "https://git/x"
    /\ result = AdminError("already exists in mcp.json")
    /\ mcpJson = call.before
\* the entries of a document under the names other than `name`
OtherEntries(doc, name) ==
    { doc.servers[i] : i \in { j \in DOMAIN doc.servers : doc.servers[j].name # name } }

\* the entries of a document under `name`: none or one
EntriesUnder(doc, name) ==
    { doc.servers[i].cfg : i \in { j \in DOMAIN doc.servers : doc.servers[j].name = name } }

\* the top-level keys of a document other than mcpServers, with their values
TopLevel(doc) == Restrict(doc, DOMAIN doc \ {"state", "servers"})

PassedKeys == { call.req[i][1] : i \in DOMAIN call.req }

\* add_server, remove_server or update_server has returned success on a
\* document that could be parsed
ChangedWellFormed ==
    /\ AdminDone
    /\ result.kind = "success"
    /\ call.before.state \in {"ok", "nokey"}

\* C28: a successful add_server, remove_server or update_server on a
\* well-formed document leaves every entry under another name and every
\* top-level key other than mcpServers as it was; update_server changes
\* only the fields it was passed.
C28_OnlyTheNamedEntryChanges ==
    ChangedWellFormed =>
      /\ OtherEntries(mcpJson, call.name) = OtherEntries(call.before, call.name)
      /\ TopLevel(mcpJson) = TopLevel(call.before)
      /\ call.op = "add" => Cardinality(EntriesUnder(mcpJson, call.name)) = 1
      /\ call.op = "remove" => EntriesUnder(mcpJson, call.name) = {}
      /\ call.op = "update" =>
           \A old \in EntriesUnder(call.before, call.name) :
             \E new \in EntriesUnder(mcpJson, call.name) :
               /\ DOMAIN old \subseteq DOMAIN new
               /\ \A k \in DOMAIN new \ PassedKeys :
                    k \in DOMAIN old /\ new[k] = old[k]

C28_Witness ==
    /\ ChangedWellFormed
    /\ call.op = "update"
    /\ call.name = "a"
    /\ PassedKeys = {"description"}
    /\ call.before = WithInputs(Doc(StdioEntry, SseWithEnv))
    /\ OtherEntries(mcpJson, "a") = { [name |-> "b", cfg |-> SseWithEnv] }
    /\ mcpJson.inputs = "x"
    /\ mcpJson # call.before
UpdateDone == pc = "done" /\ call.op = "update"

\* the entry update_server was called on, when the document had one and it
\* is an object
UpdatedEntries ==
    IF call.before.state = "ok"
    THEN { cfg \in EntriesUnder(call.before, call.name) : IsObject(cfg) }
    ELSE {}

\* a field the update of an entry of kind `kind` rejects
RejectedField(kind, key, value) ==
    \/ key \notin {"enabled", "description", "url", "command", "args", "env"}
    \/ key \in {"command", "args"} /\ kind = "sse"
    \/ key = "env" /\ kind = "stdio"
    \/ key = "args" /\ value = NotAList
    \/ key = "url" /\ kind = "sse"
         /\ value \notin {"http://h/sse", "https://h/sse"}

\* a required field the update leaves empty
EmptiedField(kind, key, value) ==
    \/ key = "command" /\ kind = "stdio" /\ value = ""
    \/ key = "args" /\ kind = "stdio" /\ value = <<>>

\* C29: update_server is all-or-nothing: when a field it is passed is
\* rejected, or the updated entry lacks a required field, it returns an
\* error; and whenever it returns an error mcp.json and REGISTRY are as
\* they were before the call, the valid fields that came before the
\* rejected one included.
C29_UpdateAllOrNothing ==
    UpdateDone =>
      \A cfg \in UpdatedEntries :
        /\ (\E i \in DOMAIN call.req :
              \/ RejectedField(ClaimedKind(cfg), call.req[i][1], call.req[i][2])
              \/ EmptiedField(ClaimedKind(cfg), call.req[i][1], call.req[i][2]))
             => result.kind = "error"
        /\ result.kind = "error"
             => /\ mcpJson = call.before
                /\ REGISTRY = call.had

C29_Witness ==
    /\ UpdateDone
    /\ call.req = << <<"description", "d2">>, <<"bogus", "x">> >>
    /\ UpdatedEntries = {StdioEntry}
    /\ result = AdminError("unknown field")
    /\ mcpJson = call.before
    /\ REGISTRY = call.had
    /\ call.name \in DOMAIN REGISTRY
\* C30: a mutating operation never overwrites an mcp.json that could not be
\* parsed: when the file is malformed JSON, add_server, remove_server and
\* update_server leave its content as it was.
C30_MalformedNeverOverwritten ==
    AdminDone /\ call.before.state = "malformed" => mcpJson = call.before

\* remove_server and update_server on the same file: the load yields no
\* entries, they answer that the name is not there and write nothing
C30_RemoveAndUpdateLeaveMalformed ==
    AdminDone /\ call.before.state = "malformed" /\ call.op \in {"remove", "update"}
      => mcpJson = call.before /\ result.kind = "error"
====
